---------------------------- MODULE Spec2Model ----------------------------
(***************************************************************************)
(* Model of do-manager-admin-hooks: the admin router (handleAdminRequest)  *)
(* and the freeze-gated storage operations of AdminHooksDurableObject.     *)
(*                                                                         *)
(* JSON values are pairs <<type, n>>.  Strings are paths made of tokens    *)
(* (a token is "/" or a piece of text without "/"), storage keys and       *)
(* messages are TLA+ strings.  The storage abstraction is a mock: every    *)
(* call a request makes is appended, with its return value, to `calls`.    *)
(***************************************************************************)
EXTENDS Integers, Sequences, FiniteSets, TLC

VARIABLES
    options,    \* the immutable AdminHooksOptions and backend capability
    storage,    \* state.storage key/value entries: key -> value, Undefined = absent
    alarm,      \* state.storage alarm: NoAlarm or a timestamp
    sql,        \* state.storage.sql: whether the backend has it, and its table names
    history,    \* what the admin layer did to the freeze record so far (for the claims)
    inflight,   \* the requests suspended at the await between guard read and write
    pending     \* the request being served one storage call at a time, if any

vars == <<options, storage, alarm, sql, history, inflight, pending>>

----------------------------------------------------------------------------
(* Bounds *)

MaxClock == 2

MaxAlarm == 1

MaxImportKeys == 1

MaxFault == 2

MaxKeyLen == 2

----------------------------------------------------------------------------
(* JSON values *)

Undefined == <<"undefined", 0>>

Null == <<"null", 0>>

True == <<"boolean", 1>>

False == <<"boolean", 0>>

Num(n) == <<"number", n>>

\* new Date().toISOString(): the non-empty ISO-8601 string of instant n
ToISOString(n) == <<"string", n>>

\* JavaScript truthiness, as used by `if (isFrozen)`, `!!isFrozen`, `!body.key`
Truthy(v) ==
    /\ v[1] \notin {"undefined", "null"}
    /\ ~(v[1] \in {"boolean", "number", "string"} /\ v[2] = 0)

\* v ?? undefined
NullishToUndefined(v) == IF v[1] \in {"undefined", "null"} THEN Undefined ELSE v

Clock == 1..MaxClock

NoAlarm == 0 - 1

AlarmTimes == 1..MaxAlarm

----------------------------------------------------------------------------
(* Storage keys *)

FROZEN_STORAGE_KEY == "__do_manager_frozen"

\* `${FROZEN_STORAGE_KEY}_at`
FROZEN_AT_KEY == "__do_manager_frozen_at"

UserKeys == {"a"}

Keys == {FROZEN_STORAGE_KEY, FROZEN_AT_KEY} \cup UserKeys

\* a storage key that is also the name of an accessor of Object.prototype
ProtoKey == "__proto__"

\* values a caller sends in put and import bodies
BodyValues == {True, False}

StoredValues == {Undefined} \cup BodyValues \cup {ToISOString(n) : n \in Clock}

\* table names are character sequences (the catalog filter inspects characters)
UsersTable == <<"u", "s", "e", "r", "s">>

CfKvTable == <<"_", "c", "f", "_", "k", "v">>

\* a table of the application whose name has "cf_" after its first character
AcfTable == <<"a", "c", "f", "_", "m", "e", "t", "a">>

TableNames == {UsersTable, CfKvTable, AcfTable}

----------------------------------------------------------------------------
(* The storage abstraction (DurableObjectStorage), as a recording mock.     *)
(* An execution context e holds the persisted state, the calls made so far  *)
(* by the running request, the ordinal of the call that rejects (0: none),  *)
(* the message of the Error thrown so far ("" while running normally) and   *)
(* the value the running operation returned.                                *)

StorageFailure == "storage failure"

NoResult == [none |-> TRUE]

Begin(st, fault) ==
    [storage |-> st.storage, alarm |-> st.alarm, sql |-> st.sql,
     calls |-> <<>>, fault |-> fault, thrown |-> "", result |-> NoResult]

Threw(e) == e.thrown # ""

Throw(e, message) == [e EXCEPT !.thrown = message]

Return(e, result) == [e EXCEPT !.result = result]

\* the value the last storage call resolved to
Ret(e) == e.calls[Len(e.calls)].ret


\* a storage call that is made again, and then resolves, when it rejects
StorageCall_Retried(e, m, k, ret, after) ==
    IF e.fault = Len(e.calls) + 1
    THEN [after EXCEPT !.calls = e.calls \o <<[m |-> m, k |-> k, ret |-> Undefined],
                                             [m |-> m, k |-> k, ret |-> ret]>>]
    ELSE [after EXCEPT !.calls = Append(e.calls, [m |-> m, k |-> k, ret |-> ret])]

\* one call of method m: it rejects when it is the call chosen to fail,
\* otherwise it resolves to ret and leaves the persisted state as in `after`
StorageCall(e, m, k, ret, after) ==
    IF e.fault = Len(e.calls) + 1
    THEN [e EXCEPT !.calls = Append(@, [m |-> m, k |-> k, ret |-> Undefined]),
                   !.thrown = StorageFailure]
    ELSE [after EXCEPT !.calls = Append(e.calls, [m |-> m, k |-> k, ret |-> ret])]

StorageGet(e, key) == StorageCall(e, "get", key, e.storage[key], e)


\* put(key, value) resolving without storing the value
StoragePut_Dropped(e, key, value) == StorageCall(e, "put", key, Undefined, e)

StoragePut(e, key, value) ==
    StorageCall(e, "put", key, Undefined, [e EXCEPT !.storage[key] = value])


\* put(entries) replacing the stored entries by the mapping
StoragePutEntries_Replaced(e, entries) ==
    StorageCall(e, "put", "", Undefined,
        [e EXCEPT !.storage =
            [k \in DOMAIN e.storage |-> IF k \in DOMAIN entries THEN entries[k] ELSE Undefined]])

\* put(entries): every entry of the mapping in one call
StoragePutEntries(e, entries) ==
    StorageCall(e, "put", "", Undefined,
        [e EXCEPT !.storage =
            [k \in DOMAIN e.storage |->
                IF k \in DOMAIN entries THEN entries[k] ELSE e.storage[k]]])

StorageDelete(e, key) ==
    StorageCall(e, "delete", key,
        IF e.storage[key] # Undefined THEN True ELSE False,
        [e EXCEPT !.storage[key] = Undefined])

StorageList(e) == StorageCall(e, "list", "", Undefined, e)

\* the entries list() resolves to
Entries(e) == {k \in DOMAIN e.storage : e.storage[k] # Undefined}


\* getAlarm() resolving to the alarm and clearing it
StorageGetAlarm_Consumed(e) ==
    StorageCall(e, "getAlarm", "",
        IF e.alarm = NoAlarm THEN Null ELSE Num(e.alarm), [e EXCEPT !.alarm = NoAlarm])

StorageGetAlarm(e) ==
    StorageCall(e, "getAlarm", "",
        IF e.alarm = NoAlarm THEN Null ELSE Num(e.alarm), e)

StorageSetAlarm(e, timestamp) ==
    StorageCall(e, "setAlarm", "", Undefined, [e EXCEPT !.alarm = timestamp])

StorageDeleteAlarm(e) ==
    StorageCall(e, "deleteAlarm", "", Undefined, [e EXCEPT !.alarm = NoAlarm])

----------------------------------------------------------------------------
(* The relational backend (SqlStorage.exec) *)

\* SQL LIKE: "_" matches one character, "%" any run of characters
RECURSIVE Like(_, _)
Like(s, pattern) ==
    IF pattern = <<>> THEN s = <<>>
    ELSE IF Head(pattern) = "%"
         THEN Like(s, Tail(pattern)) \/ (s # <<>> /\ Like(Tail(s), pattern))
         ELSE /\ s # <<>>
              /\ Head(pattern) = "_" \/ Head(pattern) = Head(s)
              /\ Like(Tail(s), Tail(pattern))

CatalogQuery == "SELECT name FROM sqlite_master WHERE type='table' AND name NOT LIKE 'sqlite_%' AND name NOT LIKE '_cf_%'"

SelectQuery == "SELECT name FROM sqlite_master"

CreateQuery == "CREATE TABLE users (id)"

DropQuery == "DROP TABLE users"

BadQuery == "SELEC"

Queries == {SelectQuery, CreateQuery, DropQuery, BadQuery}

\* the rows (here: table names) a query returns
SqlRows(e, query) ==
    IF query = CatalogQuery
    THEN {t \in e.sql.tables :
            /\ ~Like(t, <<"s", "q", "l", "i", "t", "e", "_", "%">>)
            /\ ~Like(t, <<"_", "c", "f", "_", "%">>)}
    ELSE IF query = SelectQuery THEN e.sql.tables
    ELSE {}

SqlError(e, query) ==
    IF query = CreateQuery /\ UsersTable \in e.sql.tables THEN "table users already exists"
    ELSE IF query = DropQuery /\ UsersTable \notin e.sql.tables THEN "no such table: users"
    ELSE IF query \notin {CatalogQuery, SelectQuery, CreateQuery, DropQuery}
         THEN "near \"SELEC\": syntax error"
    ELSE ""

\* sql.exec(query): synchronous; throws on a malformed or failing query
SqlExec(e, query) ==
    IF SqlError(e, query) # ""
    THEN [e EXCEPT !.calls = Append(@, [m |-> "sql.exec", k |-> query, ret |-> Undefined]),
                   !.thrown = SqlError(e, query)]
    ELSE StorageCall(e, "sql.exec", query, Undefined,
            [e EXCEPT !.sql.tables =
                IF query = CreateQuery THEN @ \cup {UsersTable}
                ELSE IF query = DropQuery THEN @ \ {UsersTable}
                ELSE @])

----------------------------------------------------------------------------
(* The admin operations of AdminHooksDurableObject.  Each takes the         *)
(* execution context and returns it after the operation: state changed,     *)
(* calls logged, and either a result or a thrown Error.                     *)

FrozenChangesMessage == "Instance is frozen. Unfreeze before making changes."

FrozenImportMessage == "Instance is frozen. Unfreeze before importing data."

SqlUnavailableMessage == "SQL not available - this DO uses KV storage backend"

adminList(e) ==
    IF e.sql.present
    THEN LET e1 == SqlExec(e, CatalogQuery)
         IN  IF Threw(e1) THEN e1 ELSE Return(e1, [tables |-> SqlRows(e, CatalogQuery)])
    ELSE LET e1 == StorageList(e)
         IN  IF Threw(e1) THEN e1 ELSE Return(e1, [keys |-> Entries(e1)])


\* adminGet behind the freeze guard
adminGet_Guarded(e, key) ==
    LET e1 == StorageGet(e, FROZEN_STORAGE_KEY)
        e2 == StorageGet(e1, key)
    IN  IF Threw(e1) THEN e1
        ELSE IF Truthy(Ret(e1)) THEN Throw(e1, FrozenChangesMessage)
        ELSE IF Threw(e2) THEN e2 ELSE Return(e2, [value |-> Ret(e2)])

adminGet(e, key) ==
    LET e1 == StorageGet(e, key)
    IN  IF Threw(e1) THEN e1 ELSE Return(e1, [value |-> Ret(e1)])



\* adminPut exempting the frozen-at key from the guard as well
adminPut_ReservedExempt(e, key, value) ==
    IF key \notin {FROZEN_STORAGE_KEY, FROZEN_AT_KEY}
    THEN LET e1 == StorageGet(e, FROZEN_STORAGE_KEY)
         IN  IF Threw(e1) THEN e1
             ELSE IF Truthy(Ret(e1)) THEN Throw(e1, FrozenChangesMessage)
             ELSE StoragePut(e1, key, value)
    ELSE StoragePut(e, key, value)

\* adminPut without the freeze guard
adminPut_Unguarded(e, key, value) == StoragePut(e, key, value)

adminPut(e, key, value) ==
    IF key # FROZEN_STORAGE_KEY
    THEN LET e1 == StorageGet(e, FROZEN_STORAGE_KEY)
         IN  IF Threw(e1) THEN e1
             ELSE IF Truthy(Ret(e1)) THEN Throw(e1, FrozenChangesMessage)
             ELSE StoragePut(e1, key, value)
    ELSE StoragePut(e, key, value)


\* adminDelete reading the frozen flag for every key
adminDelete_AlwaysGuarded(e, key) ==
    LET e1 == StorageGet(e, FROZEN_STORAGE_KEY)
    IN  IF Threw(e1) THEN e1
        ELSE IF Truthy(Ret(e1)) THEN Throw(e1, FrozenChangesMessage)
        ELSE StorageDelete(e1, key)


\* adminDelete deciding the guard from the last freeze or unfreeze it served
\* instead of reading the flag from storage
adminDelete_Remembered(e, key) ==
    IF key # FROZEN_STORAGE_KEY
    THEN IF history.last = "freeze" THEN Throw(e, FrozenChangesMessage)
         ELSE StorageDelete(e, key)
    ELSE StorageDelete(e, key)

adminDelete(e, key) ==
    IF key # FROZEN_STORAGE_KEY
    THEN LET e1 == StorageGet(e, FROZEN_STORAGE_KEY)
         IN  IF Threw(e1) THEN e1
             ELSE IF Truthy(Ret(e1)) THEN Throw(e1, FrozenChangesMessage)
             ELSE StorageDelete(e1, key)
    ELSE StorageDelete(e, key)


\* adminSql without the backend check
adminSql_Unchecked(e, query) ==
    LET e1 == SqlExec(e, query)
    IN  IF Threw(e1) THEN e1
        ELSE Return(e1, [result |-> SqlRows(e, query),
                         rowCount |-> Cardinality(SqlRows(e, query)),
                         columns |-> IF query = SelectQuery THEN <<"name">> ELSE <<>>])

adminSql(e, query) ==
    IF ~e.sql.present THEN Throw(e, SqlUnavailableMessage)
    ELSE LET e1 == SqlExec(e, query)
         IN  IF Threw(e1) THEN e1
             ELSE Return(e1, [result |-> SqlRows(e, query),
                              rowCount |-> Cardinality(SqlRows(e, query)),
                              columns |-> IF query = SelectQuery THEN <<"name">> ELSE <<>>])

adminGetAlarm(e) ==
    LET e1 == StorageGetAlarm(e)
    IN  IF Threw(e1) THEN e1 ELSE Return(e1, [alarm |-> Ret(e1)])


\* adminSetAlarm behind the freeze guard
adminSetAlarm_Guarded(e, timestamp) ==
    LET e1 == StorageGet(e, FROZEN_STORAGE_KEY)
    IN  IF Threw(e1) THEN e1
        ELSE IF Truthy(Ret(e1)) THEN Throw(e1, FrozenChangesMessage)
        ELSE StorageSetAlarm(e1, timestamp)

adminSetAlarm(e, timestamp) == StorageSetAlarm(e, timestamp)

adminDeleteAlarm(e) == StorageDeleteAlarm(e)


\* the own properties of the object literal {} after data[key] = value for
\* every key of ks: the key "__proto__" names the prototype accessor
\* inherited from Object.prototype, and assigning to it creates no property
OwnProperties(ks) == ks \ {ProtoKey}

adminExport(e, now) ==
    LET e1 == StorageList(e)
    IN  IF Threw(e1) THEN e1
        ELSE Return(e1, [data |-> [k \in OwnProperties(Entries(e1)) |-> e1.storage[k]],
                         exportedAt |-> ToISOString(now),
                         keyCount |-> Cardinality(Entries(e1))])


\* adminImport writing first and reading the frozen flag afterwards
adminImport_WriteFirst(e, data) ==
    LET e1 == StoragePutEntries(e, data)
        e2 == StorageGet(e1, FROZEN_STORAGE_KEY)
    IN  IF Threw(e1) THEN e1
        ELSE IF Threw(e2) THEN e2
        ELSE IF Truthy(e.storage[FROZEN_STORAGE_KEY]) THEN Throw(e2, FrozenImportMessage)
        ELSE e2

adminImport(e, data) ==
    LET e1 == StorageGet(e, FROZEN_STORAGE_KEY)
    IN  IF Threw(e1) THEN e1
        ELSE IF Truthy(Ret(e1)) THEN Throw(e1, FrozenImportMessage)
        ELSE StoragePutEntries(e1, data)

adminFreeze(e, now) ==
    LET frozenAt == ToISOString(now)
        e1 == StoragePut(e, FROZEN_STORAGE_KEY, True)
        e2 == StoragePut(e1, FROZEN_AT_KEY, frozenAt)
    IN  IF Threw(e1) THEN e1
        ELSE IF Threw(e2) THEN e2
        ELSE Return(e2, [frozen |-> TRUE, frozenAt |-> frozenAt])


\* adminUnfreeze deleting the flag key only
adminUnfreeze_FlagOnly(e) ==
    LET e1 == StorageDelete(e, FROZEN_STORAGE_KEY)
    IN  IF Threw(e1) THEN e1 ELSE Return(e1, [frozen |-> FALSE])

\* adminUnfreeze deleting the frozen-at key through the guarded adminDelete
adminUnfreeze_ThroughGuard(e) ==
    LET e1 == adminDelete(e, FROZEN_AT_KEY)
        e2 == StorageDelete(e1, FROZEN_STORAGE_KEY)
    IN  IF Threw(e1) THEN e1
        ELSE IF Threw(e2) THEN e2
        ELSE Return(e2, [frozen |-> FALSE])

adminUnfreeze(e) ==
    LET e1 == StorageDelete(e, FROZEN_STORAGE_KEY)
        e2 == StorageDelete(e1, FROZEN_AT_KEY)
    IN  IF Threw(e1) THEN e1
        ELSE IF Threw(e2) THEN e2
        ELSE Return(e2, [frozen |-> FALSE])



\* adminGetFreezeStatus reporting frozen only for the stored value true
adminGetFreezeStatus_StrictTrue(e) ==
    LET e1 == StorageGet(e, FROZEN_STORAGE_KEY)
        e2 == StorageGet(e1, FROZEN_AT_KEY)
    IN  IF Threw(e1) THEN e1
        ELSE IF Threw(e2) THEN e2
        ELSE Return(e2, [frozen |-> Ret(e1) = True,
                         frozenAt |-> NullishToUndefined(Ret(e2))])

\* adminGetFreezeStatus reporting frozen from the presence of frozen-at
adminGetFreezeStatus_FromFrozenAt(e) ==
    LET e1 == StorageGet(e, FROZEN_STORAGE_KEY)
        e2 == StorageGet(e1, FROZEN_AT_KEY)
    IN  IF Threw(e1) THEN e1
        ELSE IF Threw(e2) THEN e2
        ELSE Return(e2, [frozen |-> Ret(e2) # Undefined,
                         frozenAt |-> NullishToUndefined(Ret(e2))])

adminGetFreezeStatus(e) ==
    LET e1 == StorageGet(e, FROZEN_STORAGE_KEY)
        e2 == StorageGet(e1, FROZEN_AT_KEY)
    IN  IF Threw(e1) THEN e1
        ELSE IF Threw(e2) THEN e2
        ELSE Return(e2, [frozen |-> Truthy(Ret(e1)),
                         frozenAt |-> NullishToUndefined(Ret(e2))])

----------------------------------------------------------------------------
(* Strings the router inspects character by character *)

RECURSIVE BitXor(_, _)
BitXor(x, y) ==
    IF x = 0 /\ y = 0 THEN 0
    ELSE (((x % 2) + (y % 2)) % 2) + 2 * BitXor(x \div 2, y \div 2)

RECURSIVE BitOr(_, _)
BitOr(x, y) ==
    IF x = 0 /\ y = 0 THEN 0
    ELSE (IF (x % 2) = 1 \/ (y % 2) = 1 THEN 1 ELSE 0) + 2 * BitOr(x \div 2, y \div 2)

\* the loop of timingSafeEqual: result after the characters i..Len(a)
RECURSIVE XorFold(_, _, _, _)
XorFold(a, b, i, result) ==
    IF i > Len(a) THEN result
    ELSE XorFold(a, b, i + 1, BitOr(result, BitXor(a[i], b[i])))



\* a comparison loop that stops at the first differing character
RECURSIVE LoopSteps_EarlyExit(_, _, _, _)
LoopSteps_EarlyExit(a, b, i, steps) ==
    IF i > Len(a) THEN steps
    ELSE IF a[i] # b[i] THEN steps + 1
    ELSE LoopSteps_EarlyExit(a, b, i + 1, steps + 1)

\* the loop of timingSafeEqual: the iterations run from character i on, each
\* one comparing a character pair; the loop has no exit but i reaching a.length
RECURSIVE LoopSteps(_, _, _, _)
LoopSteps(a, b, i, steps) ==
    IF i > Len(a) THEN steps
    ELSE LoopSteps(a, b, i + 1, steps + 1)

\* the character comparisons timingSafeEqual(a, b) performs
Comparisons(a, b) == IF Len(a) # Len(b) THEN 0 ELSE LoopSteps(a, b, 1, 0)

\* timingSafeEqual keeping only the difference of the last characters
timingSafeEqual_LastOnly(a, b) ==
    IF Len(a) # Len(b) THEN FALSE
    ELSE Len(a) = 0 \/ BitXor(a[Len(a)], b[Len(b)]) = 0

\* strings are sequences of character codes
timingSafeEqual(a, b) ==
    IF Len(a) # Len(b) THEN FALSE
    ELSE XorFold(a, b, 1, 0) = 0

\* path.startsWith(basePath), on token sequences
StartsWith(path, prefix) ==
    /\ Len(path) >= Len(prefix)
    /\ SubSeq(path, 1, Len(prefix)) = prefix

\* path.slice(n)
Slice(path, n) == SubSeq(path, n + 1, Len(path))

\* adminPath.split("/"): the pieces between separators, empty ones included
RECURSIVE SplitLoop(_, _, _)
SplitLoop(s, parts, piece) ==
    IF s = <<>> THEN Append(parts, piece)
    ELSE IF Head(s) = "/" THEN SplitLoop(Tail(s), Append(parts, piece), <<>>)
    ELSE SplitLoop(Tail(s), parts, Append(piece, Head(s)))

Split(s) == SplitLoop(s, <<>>, <<>>)

\* .filter(Boolean)
FilterBoolean(parts) == SelectSeq(parts, LAMBDA part : part # <<>>)



\* the operation selector as the whole path after the base path
Operation_WholePath(basePath, path) == Slice(path, Len(basePath))

\* the operation selector taken from the first path part
Operation_FirstPart(basePath, path) ==
    LET adminPath == Slice(path, Len(basePath))
        pathParts == FilterBoolean(Split(adminPath))
    IN  IF Len(pathParts) > 0 THEN <<"/">> \o pathParts[1] ELSE <<>>

\* the operation selector: "/" + last path part, or "" when there is none
Operation(basePath, path) ==
    LET adminPath == Slice(path, Len(basePath))
        pathParts == FilterBoolean(Split(adminPath))
    IN  IF Len(pathParts) > 0 THEN <<"/">> \o pathParts[Len(pathParts)] ELSE <<>>

----------------------------------------------------------------------------
(* The admin router *)


\* options.basePath ?? "/admin"
BasePath(opts) == IF "basePath" \in DOMAIN opts THEN opts.basePath ELSE <<"/", "admin">>

\* if (options.requireAuth): an option left out is undefined
RequireAuth(opts) == "requireAuth" \in DOMAIN opts /\ opts.requireAuth

\* options.adminKey ?? ""
ExpectedKey(opts) == IF "adminKey" \in DOMAIN opts THEN opts.adminKey ELSE <<>>

\* request.headers.get(name) ?? ""
HeaderOrEmpty(r, name) == IF name \in DOMAIN r.headers THEN r.headers[name] ELSE <<>>

InvalidJsonMessage == "Unexpected end of JSON input"

NullBodyMessage == "Cannot read properties of null"

\* `await request.json()` and the first read of a field of the parsed body:
\* the message of the Error this throws, "" when it throws none
BodyError(r) ==
    IF r.body.json = "invalid" THEN InvalidJsonMessage
    ELSE IF r.body.json = "null" THEN NullBodyMessage
    ELSE ""


\* a JSON response built without its status (Response.json's default 200)
Json_DefaultStatus(e, status, body) == [e |-> e, status |-> 200, body |-> body]

Json(e, status, body) == [e |-> e, status |-> status, body |-> body]

\* Response.json(result) of an operation that returned, or the context of one that threw
Ok(e, body) == Json(e, 200, body)

\* the try block of handleAdminRequest: the first matching (operation, method) wins
Dispatch(e, r, operation, now) ==
    IF operation = <<"/", "list">> /\ r.method = "GET"
    THEN LET e1 == adminList(e) IN Ok(e1, e1.result)
    ELSE IF operation = <<"/", "get">> /\ r.method = "GET"
    THEN IF r.searchKey = ""
         THEN Json(e, 400, [error |-> "Missing key parameter"])
         ELSE LET e1 == adminGet(e, r.searchKey) IN Ok(e1, e1.result)
    ELSE IF operation = <<"/", "put">> /\ r.method = "POST"
    THEN IF BodyError(r) # "" THEN Ok(Throw(e, BodyError(r)), NoResult)
         ELSE IF r.body.key = ""
         THEN Json(e, 400, [error |-> "Missing key in body"])
         ELSE Ok(adminPut(e, r.body.key, r.body.value), [success |-> TRUE])
    ELSE IF operation = <<"/", "freeze">> /\ r.method = "PUT"
    THEN LET e1 == adminFreeze(e, now) IN Ok(e1, e1.result)
    ELSE IF operation = <<"/", "freeze">> /\ r.method = "DELETE"
    THEN LET e1 == adminUnfreeze(e) IN Ok(e1, e1.result)
    ELSE IF operation = <<"/", "freeze">> /\ r.method = "GET"
    THEN LET e1 == adminGetFreezeStatus(e) IN Ok(e1, e1.result)
    ELSE IF operation = <<"/", "delete">> /\ r.method = "POST"
    THEN IF BodyError(r) # "" THEN Ok(Throw(e, BodyError(r)), NoResult)
         ELSE IF r.body.key = ""
         THEN Json(e, 400, [error |-> "Missing key in body"])
         ELSE Ok(adminDelete(e, r.body.key), [success |-> TRUE])
    ELSE IF operation = <<"/", "sql">> /\ r.method = "POST"
    THEN IF BodyError(r) # "" THEN Ok(Throw(e, BodyError(r)), NoResult)
         ELSE IF r.body.query = ""
         THEN Json(e, 400, [error |-> "Missing query in body"])
         ELSE LET e1 == adminSql(e, r.body.query) IN Ok(e1, e1.result)
    ELSE IF operation = <<"/", "alarm">> /\ r.method = "GET"
    THEN LET e1 == adminGetAlarm(e) IN Ok(e1, e1.result)
    ELSE IF operation = <<"/", "alarm">> /\ r.method = "PUT"
    THEN IF BodyError(r) # "" THEN Ok(Throw(e, BodyError(r)), NoResult)
         ELSE IF r.body.timestamp[1] # "number"
         THEN Json(e, 400, [error |-> "Missing or invalid timestamp"])
         ELSE Ok(adminSetAlarm(e, r.body.timestamp[2]),
                 [success |-> TRUE, alarm |-> r.body.timestamp])
    ELSE IF operation = <<"/", "alarm">> /\ r.method = "DELETE"
    THEN Ok(adminDeleteAlarm(e), [success |-> TRUE])
    ELSE IF operation = <<"/", "export">> /\ r.method = "GET"
    THEN LET e1 == adminExport(e, now) IN Ok(e1, e1.result)
    ELSE IF operation = <<"/", "import">> /\ r.method = "POST"
    THEN IF BodyError(r) # "" THEN Ok(Throw(e, BodyError(r)), NoResult)
         ELSE IF r.body.data.type # "object"
         THEN Json(e, 400, [error |-> "Missing or invalid data object"])
         ELSE Ok(adminImport(e, r.body.data.entries),
                 [success |-> TRUE, imported |-> Cardinality(DOMAIN r.body.data.entries)])
    ELSE Json(e, 404, [error |-> "Unknown admin endpoint"])


\* the catch clause answering with a fixed message instead of the Error's own
Catch_FixedMessage(out) ==
    IF Threw(out.e) THEN Json(out.e, 500, [error |-> "Unknown error"]) ELSE out

\* the catch clause: an Error thrown inside the try block becomes a 500 response
Catch(out) ==
    IF Threw(out.e) THEN Json(out.e, 500, [error |-> out.e.thrown]) ELSE out

NotHandled == [status |-> 0, body |-> [none |-> TRUE]]

Handled(out) ==
    [storage |-> out.e.storage, alarm |-> out.e.alarm, sql |-> out.e.sql,
     calls |-> out.e.calls, response |-> [status |-> out.status, body |-> out.body]]



\* handleAdminRequest checking the credential before the base path
handleAdminRequest_AuthFirst(opts, st, r, now, fault) ==
    IF /\ RequireAuth(opts)
       /\ \/ Len(HeaderOrEmpty(r, "X-Admin-Key")) # Len(ExpectedKey(opts))
          \/ ~timingSafeEqual(HeaderOrEmpty(r, "X-Admin-Key"), ExpectedKey(opts))
    THEN Handled(Json(Begin(st, fault), 401, [error |-> "Unauthorized"]))
    ELSE IF ~StartsWith(r.path, BasePath(opts))
    THEN [storage |-> st.storage, alarm |-> st.alarm, sql |-> st.sql,
          calls |-> <<>>, response |-> NotHandled]
    ELSE Handled(Catch(Dispatch(Begin(st, fault), r,
                                Operation(BasePath(opts), r.path), now)))

\* handleAdminRequest checking the credential after the route has run
handleAdminRequest_AuthAfter(opts, st, r, now, fault) ==
    LET routed == Handled(Catch(Dispatch(Begin(st, fault), r,
                                         Operation(BasePath(opts), r.path), now)))
    IN  IF ~StartsWith(r.path, BasePath(opts))
        THEN [storage |-> st.storage, alarm |-> st.alarm, sql |-> st.sql,
              calls |-> <<>>, response |-> NotHandled]
        ELSE IF /\ RequireAuth(opts)
                /\ \/ Len(HeaderOrEmpty(r, "X-Admin-Key")) # Len(ExpectedKey(opts))
                   \/ ~timingSafeEqual(HeaderOrEmpty(r, "X-Admin-Key"), ExpectedKey(opts))
        THEN [routed EXCEPT !.response = [status |-> 401, body |-> [error |-> "Unauthorized"]]]
        ELSE routed

\* handleAdminRequest(request) in persisted state st, the clock reading `now`,
\* storage call number `fault` rejecting: the response (NotHandled for null)
\* and the persisted state it leaves
handleAdminRequest(opts, st, r, now, fault) ==
    IF ~StartsWith(r.path, BasePath(opts))
    THEN [storage |-> st.storage, alarm |-> st.alarm, sql |-> st.sql,
          calls |-> <<>>, response |-> NotHandled]
    ELSE IF /\ RequireAuth(opts)
            /\ \/ Len(HeaderOrEmpty(r, "X-Admin-Key")) # Len(ExpectedKey(opts))
               \/ ~timingSafeEqual(HeaderOrEmpty(r, "X-Admin-Key"), ExpectedKey(opts))
    THEN Handled(Json(Begin(st, fault), 401, [error |-> "Unauthorized"]))
    ELSE Handled(Catch(Dispatch(Begin(st, fault), r,
                                Operation(BasePath(opts), r.path), now)))

DefaultText == "Durable Object with admin hooks enabled. Override fetch() to add your logic."

\* fetch(request): the admin response, or the default response
fetch(opts, st, r, now, fault) ==
    LET out == handleAdminRequest(opts, st, r, now, fault)
    IN  IF out.response.status # NotHandled.status THEN out
        ELSE [out EXCEPT !.response = [status |-> 200, body |-> [text |-> DefaultText]]]

----------------------------------------------------------------------------
(* Configurations and requests *)

AdminBase == <<"/", "admin">>

\* admin keys, as sequences of character codes
SecretKey == <<3, 1>>

WrongKey == <<3, 2>>

Configs ==
    [basePath : {AdminBase}, requireAuth : BOOLEAN, adminKey : {SecretKey}]

Backends ==
    {[present |-> FALSE, tables |-> {}], [present |-> TRUE, tables |-> {CfKvTable}]}

NoData == [type |-> "undefined", entries |-> <<>>]

\* a request without a body: request.json() rejects
NoBody ==
    [json |-> "invalid", key |-> "", value |-> Undefined, query |-> "",
     timestamp |-> Undefined, data |-> NoData]

EmptyObject == [NoBody EXCEPT !.json = "object"]

NullBody == [NoBody EXCEPT !.json = "null"]

Authorized == [h \in {"X-Admin-Key"} |-> SecretKey]

Req(path, method, searchKey, body) ==
    [path |-> path, method |-> method, headers |-> Authorized,
     searchKey |-> searchKey, body |-> body]

\* {base}/op and {base}/instance/op
Direct(op) == AdminBase \o <<"/", op>>

Named(op) == AdminBase \o <<"/", "inst", "/", op>>

\* the mappings of at most MaxImportKeys entries a caller imports
ImportData ==
    UNION {[D -> BodyValues] : D \in {D \in SUBSET Keys : Cardinality(D) <= MaxImportKeys}}

ReadRequests ==
    {Req(Direct("list"), "GET", "", NoBody),
     Req(Direct("export"), "GET", "", NoBody),
     Req(Named("export"), "GET", "", NoBody),
     Req(Direct("alarm"), "GET", "", NoBody),
     Req(Named("freeze"), "GET", "", NoBody)}
    \cup {Req(Direct("get"), "GET", k, NoBody) : k \in Keys \cup {""}}

PutRequests ==
    {Req(Direct("put"), "POST", "", [EmptyObject EXCEPT !.key = k, !.value = v]) :
        k \in Keys, v \in BodyValues}
    \cup {Req(Direct("put"), "POST", "", b) : b \in {EmptyObject, NullBody, NoBody}}

DeleteRequests ==
    {Req(Direct("delete"), "POST", "", [EmptyObject EXCEPT !.key = k]) : k \in Keys}
    \cup {Req(Direct("delete"), "POST", "", EmptyObject)}

ImportRequests ==
    {Req(Direct("import"), "POST", "",
         [EmptyObject EXCEPT !.data = [type |-> "object", entries |-> m]]) :
        m \in ImportData}
    \cup {Req(Direct("import"), "POST", "", EmptyObject)}

FreezeRequests ==
    {Req(Named("freeze"), "PUT", "", NoBody),
     Req(Named("freeze"), "DELETE", "", NoBody),
     Req(Direct("freeze"), "PUT", "", NoBody)}

SqlRequests ==
    {Req(Direct("sql"), "POST", "", [EmptyObject EXCEPT !.query = q]) :
        q \in Queries \cup {""}}

AlarmRequests ==
    {Req(Direct("alarm"), "PUT", "", [EmptyObject EXCEPT !.timestamp = t]) :
        t \in {Num(n) : n \in AlarmTimes} \cup {<<"string", 1>>}}
    \cup {Req(Direct("alarm"), "DELETE", "", NoBody)}

OtherRequests ==
    {Req(Direct("unknown"), "GET", "", NoBody),
     Req(Direct("put"), "GET", "", NoBody),
     Req(<<"/", "app", "/", "list">>, "GET", "", NoBody),
     [Req(Named("freeze"), "PUT", "", NoBody) EXCEPT !.headers = <<>>],
     [Req(Direct("list"), "GET", "", NoBody) EXCEPT !.headers["X-Admin-Key"] = WrongKey]}

Requests ==
    ReadRequests \cup PutRequests \cup DeleteRequests \cup ImportRequests
    \cup FreezeRequests \cup SqlRequests \cup AlarmRequests \cup OtherRequests

----------------------------------------------------------------------------
(* The state machine: one step is one request served by fetch() *)


\* the characters of admin keys and header values, as character codes
KeyChars == {1, 2, 3}

\* the strings of at most MaxKeyLen characters, the empty string included
KeyStrings == UNION {[1..n -> KeyChars] : n \in 0..MaxKeyLen}

\* the response of the handler configured as options.fallback
FallbackResponse == [status |-> 200, body |-> [text |-> "fallback"]]

\* AdminHooksOptions with options left out: require-auth with every admin key
\* and with none, no options but the fallback, and all four options together
OptionSets ==
    {[basePath |-> AdminBase, requireAuth |-> TRUE, adminKey |-> k] : k \in KeyStrings}
    \cup {[requireAuth |-> TRUE],
          [fallback |-> FallbackResponse],
          [basePath |-> AdminBase, requireAuth |-> TRUE, adminKey |-> SecretKey,
           fallback |-> FallbackResponse]}

State == [storage |-> storage, alarm |-> alarm, sql |-> sql]

\* the persisted state a served request leaves
StateAfter(out) == [storage |-> out.storage, alarm |-> out.alarm, sql |-> out.sql]

IsOp(r, op, method) ==
    /\ StartsWith(r.path, BasePath(options))
    /\ Operation(BasePath(options), r.path) = <<"/", op>>
    /\ r.method = method

\* a put or delete request that names storage key k
Names(r, k) ==
    /\ IsOp(r, "put", "POST") \/ IsOp(r, "delete", "POST")
    /\ r.body.json = "object"
    /\ r.body.key = k

\* history.last: the last of freeze / unfreeze answered 200 ("none" before the first);
\* history.flagWritten: a put or delete naming the frozen-flag key was answered 200 since;
\* history.lateWrite: a write suspended after its guard read was applied since that freeze
Record(r, out) ==
    IF out.response.status # 200 THEN history
    ELSE IF IsOp(r, "freeze", "PUT")
    THEN [last |-> "freeze", flagWritten |-> FALSE, lateWrite |-> FALSE]
    ELSE IF IsOp(r, "freeze", "DELETE")
    THEN [last |-> "unfreeze", flagWritten |-> FALSE, lateWrite |-> FALSE]
    ELSE IF Names(r, FROZEN_STORAGE_KEY) THEN [history EXCEPT !.flagWritten = TRUE]
    ELSE history

Init ==
    /\ options \in Configs
    /\ storage = [k \in Keys |-> Undefined]
    /\ alarm = NoAlarm
    /\ sql \in Backends
    /\ history = [last |-> "none", flagWritten |-> FALSE, lateWrite |-> FALSE]
    /\ inflight = {}
    /\ pending = {}


InitOptions ==
    /\ options \in OptionSets
    /\ storage = [k \in Keys |-> Undefined]
    /\ alarm = NoAlarm
    /\ sql \in Backends
    /\ history = [last |-> "none", flagWritten |-> FALSE, lateWrite |-> FALSE]
    /\ inflight = {}
    /\ pending = {}

Fetch(r, now, fault) ==
    LET out == fetch(options, State, r, now, fault)
    IN  /\ storage' = out.storage
        /\ alarm' = out.alarm
        /\ sql' = out.sql
        /\ history' = Record(r, out)
        /\ UNCHANGED <<options, inflight, pending>>

\* the clock readings a request can observe (only freeze and export read the clock)
Readings(r) ==
    IF r.method \in {"PUT", "GET"} /\ r.path[Len(r.path)] \in {"freeze", "export"}
    THEN Clock ELSE {1}

\* every storage call resolves
Next == \E r \in Requests : \E now \in Readings(r) : Fetch(r, now, 0)

Spec == Init /\ [][Next]_vars


\* the same requests, with every shape of AdminHooksOptions
SpecOptions == InitOptions /\ [][Next]_vars


\* a storage call of the request may reject
NextFault ==
    \E r \in Requests : \E now \in Readings(r) : \E fault \in 0..MaxFault :
        Fetch(r, now, fault)

SpecFault == Init /\ [][NextFault]_vars

----------------------------------------------------------------------------
(* Vocabulary of the claims *)

\* the instance is frozen: the guard's reading of the stored flag
Frozen == Truthy(storage[FROZEN_STORAGE_KEY])

\* fetch() serving r in the current state, every storage call resolving
Serve(r, now) == fetch(options, State, r, now, 0)

\* fetch() serving r in the state a served request left
ServeAfter(out, r, now) == fetch(options, StateAfter(out), r, now, 0)

\* put, delete and import requests that pass validation and reach their operation
Mutations ==
    {r \in PutRequests \cup DeleteRequests : r.body.json = "object" /\ r.body.key # ""}
    \cup {r \in ImportRequests : r.body.data.type = "object"}

\* the mutations the freeze guard applies to: all but put/delete of the flag key itself
Guarded == {r \in Mutations : r.body.key # FROZEN_STORAGE_KEY}

FrozenError(rsp) ==
    /\ rsp.status = 500
    /\ rsp.body.error \in {FrozenChangesMessage, FrozenImportMessage}

FreezeRequest == Req(Named("freeze"), "PUT", "", NoBody)

UnfreezeRequest == Req(Named("freeze"), "DELETE", "", NoBody)

StatusRequest == Req(Named("freeze"), "GET", "", NoBody)

\* a freeze was served and no unfreeze since
SinceFreeze == history.last = "freeze"

----------------------------------------------------------------------------
(* C1 *)

\* C1 as stated: after a freeze and until the next unfreeze, every put, delete
\* and import fails with the frozen error, for every key and value.
C1_EveryKeyBlocked ==
    SinceFreeze => \A r \in Mutations : FrozenError(Serve(r, 1).response)

\* C1, amended: after a freeze and until the next unfreeze, and as long as no
\* put or delete naming the frozen-flag key itself was performed since that
\* freeze, every put and delete of a key other than the frozen-flag key and
\* every import fails with the frozen error, whether or not the key exists.
C1_GuardedBlocked ==
    (SinceFreeze /\ ~history.flagWritten) =>
        \A r \in Guarded : FrozenError(Serve(r, 1).response)

\* after a freeze, a put of a stored key and a delete of an absent key are both refused
C1_Witness ==
    /\ SinceFreeze /\ ~history.flagWritten
    /\ \E r \in Guarded :
        /\ IsOp(r, "put", "POST") /\ storage[r.body.key] # Undefined
        /\ FrozenError(Serve(r, 1).response)
    /\ \E r \in Guarded :
        /\ IsOp(r, "delete", "POST") /\ storage[r.body.key] = Undefined
        /\ FrozenError(Serve(r, 1).response)

----------------------------------------------------------------------------
(* C2 *)

\* C2: in every reachable state the frozen-at key is present in storage if and
\* only if the frozen flag is true.
C2_FrozenAtIffFrozen ==
    (storage[FROZEN_AT_KEY] # Undefined) <=> Frozen

----------------------------------------------------------------------------
(* C3 *)

\* C3: while the instance is frozen no admin request other than freeze and
\* unfreeze changes the stored entries, the relational data or the alarm.
C3_FrozenIsReadOnly ==
    [][\A r \in Requests \ FreezeRequests : \A now \in Readings(r) :
        (Frozen /\ Fetch(r, now, 0)) => UNCHANGED <<storage, alarm, sql>>]_vars

----------------------------------------------------------------------------
(* C4 *)

\* the put, delete and import requests C4 is about: those naming no reserved key
Unreserved == {r \in Guarded : r.body.key # FROZEN_AT_KEY}

\* C4: a put or delete of a non-reserved key, or an import, that the freeze
\* guard rejects has made one storage call, the read of the frozen flag, and no
\* mutating call; entries, freeze record, relational data and alarm are as before.
C4_RejectedWritesNothing ==
    \A r \in Unreserved :
        LET out == Serve(r, 1)
        IN  FrozenError(out.response) =>
                /\ out.calls = << [m |-> "get", k |-> FROZEN_STORAGE_KEY,
                                   ret |-> storage[FROZEN_STORAGE_KEY]] >>
                /\ StateAfter(out) = State

\* a frozen instance refusing an import that names a user key
C4_Witness ==
    /\ Frozen
    /\ \E r \in Unreserved :
        /\ IsOp(r, "import", "POST")
        /\ DOMAIN r.body.data.entries \cap UserKeys # {}
        /\ FrozenError(Serve(r, 1).response)

----------------------------------------------------------------------------
(* C5 *)

\* list, export and get (with its key parameter) requests
Reads ==
    {r \in ReadRequests :
        r.path[Len(r.path)] \in {"list", "export"}
        \/ (r.path[Len(r.path)] = "get" /\ r.searchKey # "")}

\* C5: while the instance is frozen, get, list and export are answered 200.
C5_ReadsSucceedWhileFrozen ==
    Frozen => \A r \in Reads : \A now \in Clock : Serve(r, now).response.status = 200

\* a frozen instance answering a get of a stored user key with its value
C5_Witness ==
    /\ Frozen /\ SinceFreeze
    /\ \E r \in Reads :
        /\ IsOp(r, "get", "GET") /\ r.searchKey \in UserKeys
        /\ storage[r.searchKey] # Undefined
        /\ Serve(r, 1).response = [status |-> 200, body |-> [value |-> storage[r.searchKey]]]

----------------------------------------------------------------------------
(* C6 *)

\* C6: freeze-status right after an unfreeze reports frozen=false and no
\* frozenAt; right after a freeze it reports frozen=true and as frozenAt the
\* timestamp that freeze captured and returned in its own response.
C6_StatusFollowsToggle ==
    /\ LET u == Serve(UnfreezeRequest, 1)
       IN  /\ u.response = [status |-> 200, body |-> [frozen |-> FALSE]]
           /\ ServeAfter(u, StatusRequest, 1).response =
                [status |-> 200, body |-> [frozen |-> FALSE, frozenAt |-> Undefined]]
    /\ \A now \in Clock :
        LET f == Serve(FreezeRequest, now)
        IN  /\ f.response =
                [status |-> 200, body |-> [frozen |-> TRUE, frozenAt |-> ToISOString(now)]]
            /\ ServeAfter(f, StatusRequest, 1).response =
                [status |-> 200,
                 body |-> [frozen |-> TRUE, frozenAt |-> f.response.body.frozenAt]]

\* an instance frozen by a freeze at a later instant than the one a new freeze
\* captures: the status after the new freeze differs from the status now
C6_Witness ==
    /\ SinceFreeze /\ Frozen
    /\ storage[FROZEN_AT_KEY] = ToISOString(MaxClock)
    /\ Serve(StatusRequest, 1).response.body.frozenAt = ToISOString(MaxClock)
    /\ ServeAfter(Serve(FreezeRequest, 1), StatusRequest, 1).response.body.frozenAt
            = ToISOString(1)
    /\ ~ServeAfter(Serve(UnfreezeRequest, 1), StatusRequest, 1).response.body.frozen

----------------------------------------------------------------------------
(* C7 *)

\* put requests that pass validation
ValidPuts == {r \in Mutations : r \in PutRequests}

\* C7: in every reachable state an unfreeze request makes no guard read, is
\* answered 200 and leaves both reserved keys absent, after which every put
\* succeeds.
C7_UnfreezeAlwaysWorks ==
    LET u == Serve(UnfreezeRequest, 1)
    IN  /\ \A i \in DOMAIN u.calls : u.calls[i].m = "delete"
        /\ u.response.status = 200
        /\ u.storage[FROZEN_STORAGE_KEY] = Undefined
        /\ u.storage[FROZEN_AT_KEY] = Undefined
        /\ \A r \in ValidPuts : ServeAfter(u, r, 1).response.status = 200

\* a frozen instance whose reserved keys were written by put requests, where
\* a put of a user key is refused now and accepted after an unfreeze
C7_Witness ==
    /\ Frozen /\ history.flagWritten
    /\ storage[FROZEN_AT_KEY] \in BodyValues
    /\ \E r \in ValidPuts :
        /\ r.body.key \in UserKeys
        /\ FrozenError(Serve(r, 1).response)
        /\ ServeAfter(Serve(UnfreezeRequest, 1), r, 1).response.status = 200

----------------------------------------------------------------------------
(* C8 *)

\* C8: while the instance is frozen, put, delete and import requests are
\* answered with status 423.
C8_FrozenAnswers423 ==
    Frozen => \A r \in Guarded : Serve(r, 1).response.status = 423

----------------------------------------------------------------------------
(* C9 *)

\* the message the guard throws for request r
GuardMessage(r) ==
    IF IsOp(r, "import", "POST") THEN FrozenImportMessage ELSE FrozenChangesMessage

----------------------------------------------------------------------------
(* C10 *)

\* C10: a request answered with an error status, also one in which a storage
\* call rejects part-way, leaves entries, freeze record, relational data and
\* alarm as they were.
C10_ErrorLeavesState ==
    [][\A r \in Requests : \A now \in Readings(r) : \A fault \in 0..MaxFault :
        (/\ Fetch(r, now, fault)
         /\ fetch(options, State, r, now, fault).response.status \in {400, 401, 404, 500})
        => UNCHANGED <<storage, alarm, sql>>]_vars


----------------------------------------------------------------------------
(* C11 *)

\* JSON values a put body can carry
JsonValues == BodyValues \cup {Null, Num(1)}

PutOf(k, v) == Req(Direct("put"), "POST", "", [EmptyObject EXCEPT !.key = k, !.value = v])

GetOf(k) == Req(Direct("get"), "GET", k, NoBody)

\* request r asks for a write of storage key k
Writes(r, k) ==
    \/ Names(r, k)
    \/ IsOp(r, "import", "POST") /\ r.body.data.type = "object"
        /\ k \in DOMAIN r.body.data.entries
    \/ (IsOp(r, "freeze", "PUT") \/ IsOp(r, "freeze", "DELETE"))
        /\ k \in {FROZEN_STORAGE_KEY, FROZEN_AT_KEY}

\* C11: for every key k and value v, a put(k, v) answered 200 while the
\* instance is unfrozen is followed by get(k) returning v, directly and (for
\* the values requests write) after any request that does not write k.
C11_GetReturnsPut ==
    ~Frozen =>
        \A k \in Keys : \A v \in JsonValues :
            LET p == Serve(PutOf(k, v), 1)
                Got == [status |-> 200, body |-> [value |-> v]]
            IN  p.response.status = 200 =>
                    /\ ServeAfter(p, GetOf(k), 1).response = Got
                    /\ v \in BodyValues =>
                        \A r \in Requests : \A now \in Readings(r) :
                            ~Writes(r, k) =>
                                ServeAfter(ServeAfter(p, r, now), GetOf(k), 1).response = Got

\* an unfrozen instance where a user key holds true: a put of false is answered
\* 200 and get then returns false, also after a freeze in between
C11_Witness ==
    /\ ~Frozen
    /\ \E k \in UserKeys :
        LET p == Serve(PutOf(k, False), 1)
        IN  /\ storage[k] = True
            /\ Serve(GetOf(k), 1).response.body.value = True
            /\ p.response.status = 200
            /\ ServeAfter(p, GetOf(k), 1).response.body.value = False
            /\ ServeAfter(ServeAfter(p, FreezeRequest, 1), GetOf(k), 1).response.body.value
                    = False


----------------------------------------------------------------------------
(* C12 *)

\* obj[k] = v on a JSON object (a mapping from its keys)
Assign(obj, k, v) == [x \in DOMAIN obj \cup {k} |-> IF x = k THEN v ELSE obj[x]]

\* the object a JSON text with the members `pairs`, in this order, parses to
RECURSIVE ObjectFold(_, _)
ObjectFold(pairs, obj) ==
    IF pairs = <<>> THEN obj
    ELSE ObjectFold(Tail(pairs), Assign(obj, Head(pairs)[1], Head(pairs)[2]))

ObjectOf(pairs) == ObjectFold(pairs, <<>>)

\* the member sequences that list the entries of `data` once each, in any order
Orderings(data) ==
    LET n == Cardinality(DOMAIN data)
    IN  {[i \in 1..n |-> <<s[i], data[s[i]]>>] :
            s \in {t \in [1..n -> DOMAIN data] :
                    \A i, j \in 1..n : i # j => t[i] # t[j]}}

ExportRequest == Req(Direct("export"), "GET", "", NoBody)

ImportOf(data) ==
    Req(Direct("import"), "POST", "",
        [EmptyObject EXCEPT !.data = [type |-> "object", entries |-> data]])

\* the instance with a freshly cleared key/value store
Cleared == [State EXCEPT !.storage = [k \in DOMAIN storage |-> Undefined]]

\* C12: the data of an export, imported into a freshly cleared store with its
\* entries in any order, leaves exactly the exported instance's key/value set;
\* importing the same data once more leaves that set unchanged.
C12_ExportImportRoundTrip ==
    LET x == Serve(ExportRequest, 1)
    IN  /\ x.response.status = 200
        /\ x.response.body.keyCount = Cardinality(DOMAIN x.response.body.data)
        /\ \A pairs \in Orderings(x.response.body.data) :
            LET first == fetch(options, Cleared, ImportOf(ObjectOf(pairs)), 1, 0)
                again == ServeAfter(first, ImportOf(ObjectOf(pairs)), 1)
            IN  /\ first.response =
                    [status |-> 200,
                     body |-> [success |-> TRUE, imported |-> x.response.body.keyCount]]
                /\ first.storage = storage
                /\ again.storage = storage

----------------------------------------------------------------------------
(* C13 *)

\* request r carrying header value c as its X-Admin-Key
WithKey(r, c) == [r EXCEPT !.headers = [h \in {"X-Admin-Key"} |-> c]]

\* the requests whose path is under the base path
AdminRequests == {r \in Requests : StartsWith(r.path, BasePath(options))}

Unauthorized == [status |-> 401, body |-> [error |-> "Unauthorized"]]

\* C13: with require-auth set, a request under the base path carrying an
\* X-Admin-Key value passes authentication (is not answered 401) if and only if
\* that value is the configured admin key, character by character; and
\* timingSafeEqual(a, b) is true iff a and b are the same character sequence.
C13_AuthIffKeyEqual ==
    RequireAuth(options) =>
        \A c \in KeyStrings :
            /\ timingSafeEqual(c, ExpectedKey(options)) <=> (c = ExpectedKey(options))
            /\ timingSafeEqual(ExpectedKey(options), c) <=> (c = ExpectedKey(options))
            /\ \A r \in AdminRequests :
                (Serve(WithKey(r, c), 1).response.status # 401)
                    <=> (c = ExpectedKey(options))

\* an instance whose two-character key let a put through: a header value that
\* differs in the first character only, one that is a prefix of the key and the
\* empty one are answered 401, the key itself is not
C13_Witness ==
    /\ RequireAuth(options) /\ Len(ExpectedKey(options)) = MaxKeyLen
    /\ \E k \in UserKeys : storage[k] # Undefined
    /\ \E c \in KeyStrings :
        /\ Len(c) = MaxKeyLen /\ c[1] # ExpectedKey(options)[1]
        /\ c[MaxKeyLen] = ExpectedKey(options)[MaxKeyLen]
        /\ Serve(WithKey(ExportRequest, c), 1).response = Unauthorized
    /\ Serve(WithKey(ExportRequest, SubSeq(ExpectedKey(options), 1, 1)), 1).response
            = Unauthorized
    /\ Serve(WithKey(ExportRequest, <<>>), 1).response = Unauthorized
    /\ Serve(WithKey(ExportRequest, ExpectedKey(options)), 1).response.status = 200


----------------------------------------------------------------------------
(* C14 *)

\* the X-Admin-Key header of r is missing or differs from the configured key
BadCredential(r) ==
    \/ "X-Admin-Key" \notin DOMAIN r.headers
    \/ r.headers["X-Admin-Key"] # ExpectedKey(options)

\* C14: with require-auth set, every request under the base path whose
\* X-Admin-Key header is missing or differs from the configured admin key is
\* answered 401 {error:"Unauthorized"}, whatever its selector, method and body
\* and whatever the configuration, one without an admin key included.
C14_BadCredential401 ==
    [][\A r \in AdminRequests : \A now \in Readings(r) :
        (RequireAuth(options) /\ BadCredential(r) /\ Fetch(r, now, 0))
        => Serve(r, now).response = Unauthorized]_vars


----------------------------------------------------------------------------
(* C15 *)

\* request r without its X-Admin-Key header
WithoutKey(r) == [r EXCEPT !.headers = <<>>]

\* the requests of the model with their own credential, with none, with the
\* empty one and with a wrong one
Credentialed ==
    Requests \cup {WithoutKey(r) : r \in Requests}
    \cup {WithKey(r, c) : r \in Requests, c \in {<<>>, WrongKey}}

\* C15: a request answered 401 has made no storage call, read or write, and
\* leaves the entries (the freeze record among them), the alarm and the
\* relational data as they were.
C15_UnauthorizedTouchesNothing ==
    \A r \in Credentialed : \A now \in Readings(r) :
        LET out == Serve(r, now)
        IN  out.response.status = 401 =>
                /\ out.response = Unauthorized
                /\ out.calls = <<>>
                /\ StateAfter(out) = State

\* a frozen instance holding a user key: unfreeze, a put to the flag key, an
\* alarm and an export with a wrong credential are answered 401, and the
\* unfreeze would have cleared the freeze record with the right one
C15_Witness ==
    /\ RequireAuth(options) /\ Frozen
    /\ \E k \in UserKeys : storage[k] # Undefined
    /\ \A r \in {UnfreezeRequest, PutOf(FROZEN_STORAGE_KEY, False), ExportRequest,
                 Req(Direct("alarm"), "PUT", "", [EmptyObject EXCEPT !.timestamp = Num(1)])} :
        Serve(WithKey(r, WrongKey), 1).response = Unauthorized
    /\ ~Truthy(Serve(WithKey(UnfreezeRequest, ExpectedKey(options)), 1).storage[FROZEN_STORAGE_KEY])


----------------------------------------------------------------------------
(* C16 *)

\* request bodies that parse to an object whose required field is missing or
\* invalid, and the get without key parameter, each with the message of its route
Invalid ==
    {<<GetOf(""), "Missing key parameter">>,
     <<Req(Named("get"), "GET", "", NoBody), "Missing key parameter">>}
    \cup {<<Req(Direct(op), "POST", "", b), "Missing key in body">> :
            op \in {"put", "delete"},
            b \in {EmptyObject} \cup {[EmptyObject EXCEPT !.value = v] : v \in BodyValues}}
    \cup {<<Req(Direct("sql"), "POST", "", b), "Missing query in body">> :
            b \in {EmptyObject, [EmptyObject EXCEPT !.key = "a"]}}
    \cup {<<Req(Direct("alarm"), "PUT", "", [EmptyObject EXCEPT !.timestamp = t]),
            "Missing or invalid timestamp">> :
            t \in {Undefined, Null, True, <<"string", 1>>}}
    \cup {<<Req(Direct("import"), "POST", "",
                [EmptyObject EXCEPT !.data = [type |-> t, entries |-> <<>>]]),
            "Missing or invalid data object">> :
            t \in {"undefined", "null", "string", "number"}}

\* C16: for get, put, delete, sql, alarm-set and import, a request whose
\* required field is missing or invalid is answered 400 with the message of
\* its operation, makes no storage call and leaves storage unchanged, in
\* frozen and unfrozen states alike.
C16_Validation400 ==
    \A iv \in Invalid :
        LET out == Serve(iv[1], 1)
        IN  /\ out.response = [status |-> 400, body |-> [error |-> iv[2]]]
            /\ out.calls = <<>>
            /\ StateAfter(out) = State

\* a frozen instance: a put without key is answered 400 "Missing key in body"
\* where a put with a key is refused by the guard, an alarm with a text
\* timestamp and an import without data are answered 400 with their messages
C16_Witness ==
    /\ Frozen /\ SinceFreeze
    /\ Serve(Req(Direct("put"), "POST", "", EmptyObject), 1).response
            = [status |-> 400, body |-> [error |-> "Missing key in body"]]
    /\ \E k \in UserKeys : FrozenError(Serve(PutOf(k, True), 1).response)
    /\ Serve(Req(Direct("alarm"), "PUT", "",
                 [EmptyObject EXCEPT !.timestamp = <<"string", 1>>]), 1).response
            = [status |-> 400, body |-> [error |-> "Missing or invalid timestamp"]]
    /\ Serve(Req(Direct("import"), "POST", "", EmptyObject), 1).response
            = [status |-> 400, body |-> [error |-> "Missing or invalid data object"]]


----------------------------------------------------------------------------
(* C17 *)

\* instance-name segments between the base path and the selector: one, two,
\* one after an empty segment, and ones spelled like a selector
InstancePrefixes ==
    {<<"/", "inst">>, <<"/", "a", "/", "b">>, <<"/", "/", "inst">>,
     <<"/", "list">>, <<"/", "freeze", "/", "put">>}

\* request r with the instance segments p before its selector and the tail t after
Rerouted(r, p, t) ==
    [r EXCEPT !.path = BasePath(options) \o p \o <<"/", r.path[Len(r.path)]>> \o t]

\* C17: {base}/X and {base}/<instance segments>/X, with or without a trailing
\* separator, are answered alike and leave the same storage state, for every
\* selector X, method and body.
C17_LastSegmentSelects ==
    \A r \in AdminRequests : \A now \in Readings(r) :
        LET direct == Serve(Rerouted(r, <<>>, <<>>), now)
        IN  \A p \in InstancePrefixes : \A t \in {<<>>, <<"/">>} :
                Serve(Rerouted(r, p, t), now) = direct

\* a frozen instance holding a user key: the get of that key is answered with
\* its value under {base}/get and under {base}/freeze/put/get, and a put under
\* {base}/list/put/ is refused like the one under {base}/put
C17_Witness ==
    /\ Frozen /\ SinceFreeze
    /\ \E k \in UserKeys :
        /\ storage[k] # Undefined
        /\ Serve(GetOf(k), 1).response = [status |-> 200, body |-> [value |-> storage[k]]]
        /\ Serve(Rerouted(GetOf(k), <<"/", "freeze", "/", "put">>, <<>>), 1)
                = Serve(GetOf(k), 1)
        /\ FrozenError(Serve(Rerouted(PutOf(k, True), <<"/", "list">>, <<"/">>), 1).response)


----------------------------------------------------------------------------
(* C18 *)

\* the dispatch table: the (selector, method) pairs that have a route
Table ==
    {<<"list", "GET">>, <<"get", "GET">>, <<"put", "POST">>, <<"delete", "POST">>,
     <<"sql", "POST">>, <<"alarm", "GET">>, <<"alarm", "PUT">>, <<"alarm", "DELETE">>,
     <<"export", "GET">>, <<"import", "POST">>,
     <<"freeze", "PUT">>, <<"freeze", "DELETE">>, <<"freeze", "GET">>}

Selectors == {t[1] : t \in Table} \cup {"unknown", "List", "admin"}

Methods == {"GET", "POST", "PUT", "DELETE", "PATCH"}

\* requests for the pairs that have no route, and for an empty suffix
Unrouted ==
    UNION {{Req(path, t[2], k, b) :
                path \in {Direct(t[1]), Named(t[1])}, k \in {"a"},
                b \in {NoBody, [EmptyObject EXCEPT !.key = "a", !.value = True]}} :
            t \in (Selectors \X Methods) \ Table}
    \cup {Req(path, m, "a", NoBody) :
            path \in {AdminBase, AdminBase \o <<"/">>, AdminBase \o <<"/", "/">>},
            m \in Methods}

\* r is a request under the base path whose last path segment is sel, with method m
Selects(r, sel, m) ==
    /\ StartsWith(r.path, BasePath(options))
    /\ Len(r.path) > Len(BasePath(options))
    /\ r.path[Len(r.path)] = sel
    /\ r.method = m

\* request r has a route and passes the validation of that route
Routed(r) ==
    /\ r.headers = Authorized
    /\ \E t \in Table : Selects(r, t[1], t[2])
    /\ Selects(r, "get", "GET") => r.searchKey # ""
    /\ r.method = "POST" \/ Selects(r, "alarm", "PUT") => r.body.json = "object"
    /\ Selects(r, "put", "POST") \/ Selects(r, "delete", "POST") => r.body.key # ""
    /\ Selects(r, "sql", "POST") => r.body.query # ""
    /\ Selects(r, "alarm", "PUT") => r.body.timestamp[1] = "number"
    /\ Selects(r, "import", "POST") => r.body.data.type = "object"

\* the operation of r's table entry, invoked with r's arguments in context e
EntryOn(e, r, now) ==
        CASE Selects(r, "list", "GET") -> adminList(e)
          [] Selects(r, "get", "GET") -> adminGet(e, r.searchKey)
          [] Selects(r, "put", "POST") -> adminPut(e, r.body.key, r.body.value)
          [] Selects(r, "delete", "POST") -> adminDelete(e, r.body.key)
          [] Selects(r, "sql", "POST") -> adminSql(e, r.body.query)
          [] Selects(r, "alarm", "GET") -> adminGetAlarm(e)
          [] Selects(r, "alarm", "PUT") -> adminSetAlarm(e, r.body.timestamp[2])
          [] Selects(r, "alarm", "DELETE") -> adminDeleteAlarm(e)
          [] Selects(r, "export", "GET") -> adminExport(e, now)
          [] Selects(r, "import", "POST") -> adminImport(e, r.body.data.entries)
          [] Selects(r, "freeze", "PUT") -> adminFreeze(e, now)
          [] Selects(r, "freeze", "DELETE") -> adminUnfreeze(e)
          [] Selects(r, "freeze", "GET") -> adminGetFreezeStatus(e)

\* the operation of r's table entry, invoked on its own with r's arguments
Entry(r, now) == EntryOn(Begin(State, 0), r, now)

NotFound == [status |-> 404, body |-> [error |-> "Unknown admin endpoint"]]

\* C18: an authorized request whose (selector, method) pair is in the table
\* and that passes validation makes the storage calls of that entry's
\* operation and no others, and is answered 200, or 500 when the operation
\* threw; a request for any other pair, or with an empty suffix, is answered
\* 404 {error:"Unknown admin endpoint"} and makes no storage call.
C18_DispatchTable ==
    /\ \A r \in Requests : \A now \in Readings(r) :
        Routed(r) =>
            LET out == Serve(r, now)
                e1 == Entry(r, now)
            IN  /\ out.calls = e1.calls
                /\ StateAfter(out) = [storage |-> e1.storage, alarm |-> e1.alarm, sql |-> e1.sql]
                /\ out.response.status = IF Threw(e1) THEN 500 ELSE 200
    /\ \A r \in Unrouted :
        LET out == Serve(r, 1)
        IN  /\ out.response = NotFound
            /\ out.calls = <<>>
            /\ StateAfter(out) = State

\* a frozen instance with an alarm set: POST /freeze, GET /put and DELETE on the
\* bare base path are answered 404, DELETE /alarm makes the one deleteAlarm call
\* and DELETE /freeze the two deletes of the freeze record
C18_Witness ==
    /\ Frozen /\ alarm # NoAlarm
    /\ Serve(Req(Named("freeze"), "POST", "", NoBody), 1).response = NotFound
    /\ Serve(Req(Direct("put"), "GET", "a", NoBody), 1).response = NotFound
    /\ Serve(Req(AdminBase, "DELETE", "a", NoBody), 1).response = NotFound
    /\ Serve(Req(Direct("alarm"), "DELETE", "", NoBody), 1).calls
            = << [m |-> "deleteAlarm", k |-> "", ret |-> Undefined] >>
    /\ Serve(UnfreezeRequest, 1).calls
            = << [m |-> "delete", k |-> FROZEN_STORAGE_KEY, ret |-> True],
                 [m |-> "delete", k |-> FROZEN_AT_KEY,
                  ret |-> IF storage[FROZEN_AT_KEY] # Undefined THEN True ELSE False] >>


----------------------------------------------------------------------------
(* C19 *)

\* requests whose path does not start with the base path, with a right, a
\* wrong, an empty and no credential
Elsewhere ==
    LET plain == {Req(path, m, "a", b) :
                    path \in {<<"/">>, <<"/", "list">>, <<"/", "app", "/", "list">>,
                              <<"/", "adm">>, <<"/", "api", "/", "admin", "/", "freeze">>},
                    m \in {"GET", "POST", "PUT", "DELETE"},
                    b \in {NoBody, [EmptyObject EXCEPT !.key = "a", !.value = True]}}
    IN  {r \in plain \cup {WithoutKey(r) : r \in plain}
                \cup {WithKey(r, c) : r \in plain, c \in {<<>>, WrongKey}} :
            ~StartsWith(r.path, BasePath(options))}

----------------------------------------------------------------------------
(* C20 *)

\* C20: when a fallback handler is configured, every request that matches no
\* admin route, under the base path or outside it, is answered with the
\* fallback handler's response; the 404 "Unknown admin endpoint" appears only
\* when no fallback is configured.
C20_FallbackHandlesUnmatched ==
    "fallback" \in DOMAIN options =>
        \A r \in Unrouted \cup Elsewhere :
            /\ Serve(r, 1).response = options.fallback
            /\ Serve(r, 1).response # NotFound


----------------------------------------------------------------------------
(* C21 *)

\* the requests under the base path that carry the configured credential
AuthorizedRequests == {r \in AdminRequests : r.headers = Authorized}

----------------------------------------------------------------------------
(* C22 *)

\* C22: the stored frozen-at is written only when the instance goes from
\* unfrozen to frozen: a freeze request served by an instance that a freeze
\* has frozen leaves the stored frozen-at as it was.
C22_RefreezeKeepsFrozenAt ==
    [][\A now \in Clock :
        (Frozen /\ SinceFreeze /\ Fetch(FreezeRequest, now, 0))
        => storage'[FROZEN_AT_KEY] = storage[FROZEN_AT_KEY]]_vars


----------------------------------------------------------------------------
(* C23 *)

\* C23: for every candidate credential of the admin key's length,
\* timingSafeEqual performs as many character comparisons as the key has
\* characters, wherever the first difference is, and the router's answer to
\* such a candidate is decided by timingSafeEqual alone.
C23_ComparisonsIndependentOfMismatch ==
    RequireAuth(options) =>
        \A c \in KeyStrings :
            Len(c) = Len(ExpectedKey(options)) =>
                /\ Comparisons(c, ExpectedKey(options)) = Len(ExpectedKey(options))
                /\ \A r \in {ExportRequest, FreezeRequest} :
                    (Serve(WithKey(r, c), 1).response = Unauthorized)
                        <=> ~timingSafeEqual(c, ExpectedKey(options))

\* an instance whose two-character key let a put through: a candidate wrong
\* in its first character and one wrong in its last are both compared in two
\* steps and both answered 401
C23_Witness ==
    /\ RequireAuth(options) /\ Len(ExpectedKey(options)) = MaxKeyLen
    /\ \E k \in UserKeys : storage[k] # Undefined
    /\ \E c1, c2 \in KeyStrings :
        /\ Len(c1) = MaxKeyLen /\ Len(c2) = MaxKeyLen
        /\ c1[1] # ExpectedKey(options)[1]
        /\ c2[1] = ExpectedKey(options)[1] /\ c2[MaxKeyLen] # ExpectedKey(options)[MaxKeyLen]
        /\ Comparisons(c1, ExpectedKey(options)) = Comparisons(c2, ExpectedKey(options))
        /\ Serve(WithKey(ExportRequest, c1), 1).response = Unauthorized
        /\ Serve(WithKey(ExportRequest, c2), 1).response = Unauthorized


----------------------------------------------------------------------------
(* C24 *)

DeleteOf(k) == Req(Direct("delete"), "POST", "", [EmptyObject EXCEPT !.key = k])

Success == [status |-> 200, body |-> [success |-> TRUE]]

\* C24: in every reachable state, frozen or not, a put or delete whose key is
\* the frozen-flag key makes one storage call, the put or delete itself, with
\* no read of the frozen flag, and is performed.
C24_FlagKeyBypassesGuard ==
    /\ \A v \in JsonValues :
        LET out == Serve(PutOf(FROZEN_STORAGE_KEY, v), 1)
        IN  /\ out.response = Success
            /\ out.calls = << [m |-> "put", k |-> FROZEN_STORAGE_KEY, ret |-> Undefined] >>
            /\ out.storage = [storage EXCEPT ![FROZEN_STORAGE_KEY] = v]
    /\ LET out == Serve(DeleteOf(FROZEN_STORAGE_KEY), 1)
       IN  /\ out.response = Success
           /\ Len(out.calls) = 1
           /\ out.calls[1].m = "delete" /\ out.calls[1].k = FROZEN_STORAGE_KEY
           /\ out.storage = [storage EXCEPT ![FROZEN_STORAGE_KEY] = Undefined]

\* an instance frozen by a freeze: a put of a user key is refused, a put of
\* false to the flag key and a delete of the flag key are performed
C24_Witness ==
    /\ Frozen /\ SinceFreeze /\ ~history.flagWritten
    /\ \E k \in UserKeys : FrozenError(Serve(PutOf(k, True), 1).response)
    /\ Serve(PutOf(FROZEN_STORAGE_KEY, False), 1).storage[FROZEN_STORAGE_KEY] = False
    /\ Serve(DeleteOf(FROZEN_STORAGE_KEY), 1).storage[FROZEN_STORAGE_KEY] = Undefined
    /\ Serve(DeleteOf(FROZEN_STORAGE_KEY), 1).response = Success


----------------------------------------------------------------------------
(* C25 *)

\* put and delete requests, past validation, that name the frozen-flag key or
\* the frozen-at key
OnReservedKeys == {r \in Mutations : r.body.key \in {FROZEN_STORAGE_KEY, FROZEN_AT_KEY}}

\* C25 as stated: while the instance is frozen, a put or delete whose key is
\* the frozen-flag key or the frozen-at key is performed.
C25_ReservedKeysExempt ==
    Frozen => \A r \in OnReservedKeys : Serve(r, 1).response = Success

\* C25, amended: while the instance is frozen, a put or delete of the
\* frozen-flag key is performed, freeze and unfreeze write both reserved keys
\* and are answered 200, and a put or delete of the frozen-at key is refused
\* by the guard like that of any other key, leaving the frozen-at key as it was.
C25_OnlyFlagKeyExempt ==
    Frozen =>
        /\ \A r \in OnReservedKeys :
            IF r.body.key = FROZEN_STORAGE_KEY
            THEN Serve(r, 1).response = Success
            ELSE /\ FrozenError(Serve(r, 1).response)
                 /\ Serve(r, 1).storage = storage
        /\ \A now \in Clock :
            /\ Serve(FreezeRequest, now).response.status = 200
            /\ Serve(FreezeRequest, now).storage[FROZEN_AT_KEY] = ToISOString(now)
        /\ Serve(UnfreezeRequest, 1).response.status = 200
        /\ Serve(UnfreezeRequest, 1).storage[FROZEN_AT_KEY] = Undefined

\* an instance frozen by a freeze: the put of the frozen-at key is refused and
\* the put of the flag key is performed
C25_Witness ==
    /\ Frozen /\ SinceFreeze /\ storage[FROZEN_AT_KEY] # Undefined
    /\ FrozenError(Serve(PutOf(FROZEN_AT_KEY, True), 1).response)
    /\ FrozenError(Serve(DeleteOf(FROZEN_AT_KEY), 1).response)
    /\ Serve(PutOf(FROZEN_STORAGE_KEY, True), 1).response = Success
    /\ PutOf(FROZEN_AT_KEY, True) \in OnReservedKeys


----------------------------------------------------------------------------
(* C26 *)

\* the frozen value freeze-status reports in the state a served request left
ReportedAfter(out) == ServeAfter(out, StatusRequest, 1).response.body.frozen

\* the frozen value freeze-status reports now
Reported == Serve(StatusRequest, 1).response.body.frozen

\* C26 as stated: a step by any request other than freeze and unfreeze leaves
\* the frozen value reported by freeze-status as it was.
C26_OnlyToggleChangesFrozen ==
    [][\A r \in Requests : \A now \in Readings(r) :
        (/\ ~IsOp(r, "freeze", "PUT") /\ ~IsOp(r, "freeze", "DELETE")
         /\ Fetch(r, now, 0))
        => (Truthy(storage'[FROZEN_STORAGE_KEY]) <=> Frozen)]_vars

\* C26, amended: the frozen value reported by freeze-status is left as it was
\* by every request that is neither a freeze nor an unfreeze nor a put, delete
\* or import naming the frozen-flag key.
C26_OnlyFlagWritersChangeFrozen ==
    \A r \in Requests : \A now \in Readings(r) :
        ~Writes(r, FROZEN_STORAGE_KEY) => (ReportedAfter(Serve(r, now)) <=> Reported)

\* an unfrozen instance holding a user key: an import of a user key and a put
\* of the frozen-at key are performed and leave it unfrozen, a put of true to
\* the flag key and an import naming the flag key make freeze-status report frozen
C26_Witness ==
    /\ ~Reported
    /\ \E k \in UserKeys :
        /\ storage[k] # Undefined
        /\ Serve(ImportOf(ObjectOf(<< <<k, True>> >>)), 1).response.status = 200
        /\ ~ReportedAfter(Serve(ImportOf(ObjectOf(<< <<k, True>> >>)), 1))
    /\ Serve(PutOf(FROZEN_AT_KEY, True), 1).response = Success
    /\ ~ReportedAfter(Serve(PutOf(FROZEN_AT_KEY, True), 1))
    /\ ReportedAfter(Serve(PutOf(FROZEN_STORAGE_KEY, True), 1))
    /\ ReportedAfter(Serve(ImportOf(ObjectOf(<< <<FROZEN_STORAGE_KEY, True>> >>)), 1))


----------------------------------------------------------------------------
(* C27 *)

\* values a put can store under the flag key: truthy and falsy ones of each type
FlagValues == JsonValues \cup {Num(0), <<"string", 0>>, <<"string", 1>>, <<"object", 0>>}

\* C27: in every reachable state, and in the state left by a put of any value
\* to the flag key, a put or delete of a non-reserved key or an import is
\* rejected as frozen if and only if freeze-status reports frozen=true.
C27_GuardAgreesWithStatus ==
    /\ \A r \in Unreserved : FrozenError(Serve(r, 1).response) <=> Reported
    /\ \A v \in FlagValues :
        LET p == Serve(PutOf(FROZEN_STORAGE_KEY, v), 1)
        IN  /\ ReportedAfter(p) <=> Truthy(v)
            /\ \A r \in Unreserved :
                FrozenError(ServeAfter(p, r, 1).response) <=> ReportedAfter(p)

\* an instance whose flag key holds false with frozen-at present: status
\* reports not frozen and a put of a user key is performed; once the number 1
\* is put under the flag key both report frozen
C27_Witness ==
    /\ storage[FROZEN_STORAGE_KEY] = False /\ storage[FROZEN_AT_KEY] # Undefined
    /\ ~Reported
    /\ \E k \in UserKeys :
        /\ Serve(PutOf(k, True), 1).response = Success
        /\ LET p == Serve(PutOf(FROZEN_STORAGE_KEY, Num(1)), 1)
           IN  /\ ReportedAfter(p)
               /\ FrozenError(ServeAfter(p, PutOf(k, True), 1).response)

----------------------------------------------------------------------------
(* C28 *)

\* the put, delete and import requests of user keys: they pass the guard on an
\* unfrozen instance and then await their write
Suspendable ==
    {r \in Unreserved :
        IF IsOp(r, "import", "POST") THEN DOMAIN r.body.data.entries \subseteq UserKeys
        ELSE r.body.key \in UserKeys}


\* the write made through the guarded operation again, re-reading the flag
WriteOf_Rechecked(e, r) ==
    IF IsOp(r, "put", "POST") THEN adminPut(e, r.body.key, r.body.value)
    ELSE IF IsOp(r, "delete", "POST") THEN adminDelete(e, r.body.key)
    ELSE adminImport(e, r.body.data.entries)

\* the storage call adminPut, adminDelete and adminImport make after the guard
WriteOf(e, r) ==
    IF IsOp(r, "put", "POST") THEN StoragePut(e, r.body.key, r.body.value)
    ELSE IF IsOp(r, "delete", "POST") THEN StorageDelete(e, r.body.key)
    ELSE StoragePutEntries(e, r.body.data.entries)

\* request r has read a falsy frozen flag and is suspended before its write
Suspend(r) ==
    /\ inflight = {}
    /\ ~Truthy(Ret(StorageGet(Begin(State, 0), FROZEN_STORAGE_KEY)))
    /\ inflight' = {r}
    /\ UNCHANGED <<options, storage, alarm, sql, history, pending>>

\* the suspended request r makes its write and is answered
Resume(r) ==
    LET e1 == WriteOf(Begin(State, 0), r)
    IN  /\ r \in inflight
        /\ storage' = e1.storage
        /\ alarm' = e1.alarm
        /\ sql' = e1.sql
        /\ inflight' = inflight \ {r}
        /\ history' = [history EXCEPT !.lateWrite = @ \/ history.last = "freeze"]
        /\ UNCHANGED <<options, pending>>

\* requests may interleave at the await between a guard read and its write:
\* while one is suspended there, others are served
NextInterleaved ==
    \/ \E r \in FreezeRequests \cup PutRequests \cup DeleteRequests :
        \E now \in Readings(r) : Fetch(r, now, 0)
    \/ \E r \in Suspendable : Suspend(r)
    \/ \E r \in Suspendable : Resume(r)

SpecInterleaved == Init /\ [][NextInterleaved]_vars


\* C28 as stated, its serialized part: with no request suspended, a put,
\* delete or import served between a completed freeze and the next unfreeze
\* applies no write.
C28_NoSerialWriteAfterFreeze ==
    [][\A r \in Mutations :
        (SinceFreeze /\ inflight = {} /\ Fetch(r, 1, 0)) => storage' = storage]_vars

\* C28, amended: after a completed freeze and until the next unfreeze, as
\* long as no put or delete naming the flag key was served since, a put or
\* delete of another key or an import served start to finish is refused and
\* applies no write, while a request suspended between its guard read and its
\* write applies that write with one storage call and no second read of the flag.
C28_GuardReadThenWrite ==
    /\ (SinceFreeze /\ ~history.flagWritten) =>
        \A r \in Guarded :
            /\ FrozenError(Serve(r, 1).response)
            /\ Serve(r, 1).storage = storage
    /\ \A r \in inflight :
        LET e1 == WriteOf(Begin(State, 0), r)
        IN  /\ ~Threw(e1)
            /\ Len(e1.calls) = 1 /\ e1.calls[1].m \in {"put", "delete"}
            /\ IsOp(r, "put", "POST") => e1.storage[r.body.key] = r.body.value

\* a freeze was answered while a put of a user key was suspended after its
\* guard read; the put's write was then applied: the instance is frozen, no
\* unfreeze or flag-key write happened since, and the late write is recorded
C28_Witness ==
    /\ SinceFreeze /\ ~history.flagWritten /\ Frozen
    /\ history.lateWrite
    /\ inflight = {}
    /\ \E k \in UserKeys : storage[k] # Undefined


----------------------------------------------------------------------------
(* C29 *)

\* the mappings a caller imports, of any number of keys
Mappings == UNION {[D -> BodyValues] : D \in SUBSET Keys}

\* the bulk writes among the storage calls of a served request
BulkWrites(out) == {i \in 1..Len(out.calls) : out.calls[i].m = "put" /\ out.calls[i].k = ""}

\* the writes of any kind among the storage calls of a served request
AllWrites(out) == {i \in 1..Len(out.calls) : out.calls[i].m \in {"put", "delete"}}

\* C29: a put or delete of key k answered 200 leaves every stored key other
\* than k as it was; an import of mapping m answered 200 makes one bulk write
\* and no other write, after which every key of m holds m's value, every key
\* outside m holds what it held, and every key stored before is still stored.
C29_MutationsChangeOnlyNamedKeys ==
    /\ \A r \in {q \in Mutations : ~IsOp(q, "import", "POST")} :
        LET out == Serve(r, 1)
        IN  out.response.status = 200 =>
                \A k \in Keys \ {r.body.key} : out.storage[k] = storage[k]
    /\ \A m \in Mappings :
        LET out == Serve(ImportOf(m), 1)
        IN  out.response.status = 200 =>
                /\ Cardinality(BulkWrites(out)) = 1
                /\ AllWrites(out) = BulkWrites(out)
                /\ \A k \in DOMAIN m : out.storage[k] = m[k]
                /\ \A k \in Keys \ DOMAIN m : out.storage[k] = storage[k]
                /\ Entries(State) \subseteq Entries(out)

\* an instance that is not frozen stores a user key and the frozen-at key; an
\* import of a mapping without the user key succeeds and the user key is kept,
\* and a put of the user key succeeds and the frozen-at key is kept
C29_Witness ==
    /\ ~Frozen
    /\ storage["a"] # Undefined
    /\ storage[FROZEN_AT_KEY] # Undefined
    /\ \E m \in Mappings :
        /\ DOMAIN m = {FROZEN_STORAGE_KEY}
        /\ Serve(ImportOf(m), 1).response.status = 200
        /\ Serve(ImportOf(m), 1).storage["a"] = storage["a"]
    /\ Serve(PutOf("a", False), 1).response.status = 200
    /\ Serve(PutOf("a", False), 1).storage[FROZEN_AT_KEY] = storage[FROZEN_AT_KEY]


----------------------------------------------------------------------------
(* C30 *)

\* C30: in every reachable state, frozen or not, a list, get, export,
\* alarm-get or freeze-status request leaves the stored entries, the freeze
\* record, the alarm and the SQL tables as they were, at every clock reading
\* and whether or not one of its storage calls fails.
C30_ReadsChangeNothing ==
    \A r \in ReadRequests : \A now \in Clock : \A f \in 0..MaxFault :
        StateAfter(fetch(options, State, r, now, f)) = State

\* a frozen instance with a stored user key and an alarm answers the alarm
\* read with the alarm and the freeze-status read with frozen, and keeps both
C30_Witness ==
    /\ Frozen /\ storage[FROZEN_AT_KEY] # Undefined
    /\ storage["a"] # Undefined
    /\ alarm # NoAlarm
    /\ Serve(Req(Direct("alarm"), "GET", "", NoBody), 1).response
        = [status |-> 200, body |-> [alarm |-> Num(alarm)]]
    /\ Serve(StatusRequest, 1).response.status = 200
    /\ Serve(StatusRequest, 1).response.body.frozen
    /\ StateAfter(Serve(Req(Direct("alarm"), "GET", "", NoBody), 1)) = State


----------------------------------------------------------------------------
(* C31 *)

\* storage keys are arbitrary strings: the keys above and the key "__proto__"
AnyKeys == Keys \cup {ProtoKey}

\* the backends above, and a relational backend holding a table of the application
AnyBackends == Backends \cup {[present |-> TRUE, tables |-> {CfKvTable, AcfTable}]}

InitAnyKeys ==
    /\ options \in Configs
    /\ storage = [k \in AnyKeys |-> Undefined]
    /\ alarm = NoAlarm
    /\ sql \in AnyBackends
    /\ history = [last |-> "none", flagWritten |-> FALSE, lateWrite |-> FALSE]
    /\ inflight = {}
    /\ pending = {}

ListRequest == Req(Direct("list"), "GET", "", NoBody)

\* put, delete and one-key import of every key, freeze and unfreeze, and the reads
AnyKeyRequests ==
    {PutOf(k, v) : k \in AnyKeys, v \in BodyValues}
    \cup {DeleteOf(k) : k \in AnyKeys}
    \cup {ImportOf([k \in {ProtoKey} |-> v]) : v \in BodyValues}
    \cup {FreezeRequest, UnfreezeRequest, ExportRequest, ListRequest}

NextAnyKeys == \E r \in AnyKeyRequests : \E now \in Readings(r) : Fetch(r, now, 0)

SpecAnyKeys == InitAnyKeys /\ [][NextAnyKeys]_vars

\* C31: in every reachable state an export is answered 200 with data holding
\* exactly the stored entries, each with its stored value, and keyCount equal
\* to the number of keys of data; a reserved freeze key that is stored is a
\* key of data, and a key of the list answer on a key-value backend.
C31_ExportReturnsEveryEntry ==
    \A now \in Clock :
        LET x == Serve(ExportRequest, now).response
            l == Serve(ListRequest, now).response
        IN  /\ x.status = 200
            /\ DOMAIN x.body.data = Entries(State)
            /\ \A k \in DOMAIN x.body.data : x.body.data[k] = storage[k]
            /\ x.body.keyCount = Cardinality(DOMAIN x.body.data)
            /\ \A k \in {FROZEN_STORAGE_KEY, FROZEN_AT_KEY} \cap Entries(State) :
                /\ k \in DOMAIN x.body.data
                /\ ~sql.present => (l.status = 200 /\ k \in l.body.keys)


----------------------------------------------------------------------------
(* C32 *)

\* the prefixes of the host platform's own tables
SystemPrefixes == {<<"s", "q", "l", "i", "t", "e", "_">>, <<"_", "c", "f", "_">>}

\* the tables whose name begins with none of the system prefixes
UserTables(tables) == {t \in tables : \A p \in SystemPrefixes : ~StartsWith(t, p)}

\* C32: with a relational backend a list request is answered 200 with tables
\* holding exactly the tables whose name begins with neither "sqlite_" nor
\* "_cf_", and without keys; without one it is answered 200 with keys holding
\* every stored key, and without tables.
C32_ListBranchesOnBackend ==
    LET l == Serve(ListRequest, 1).response
    IN  /\ l.status = 200
        /\ IF sql.present
           THEN DOMAIN l.body = {"tables"} /\ l.body.tables = UserTables(sql.tables)
           ELSE DOMAIN l.body = {"keys"} /\ l.body.keys = Entries(State)


----------------------------------------------------------------------------
(* C33 *)

AlarmSetOf(t) == Req(Direct("alarm"), "PUT", "", [EmptyObject EXCEPT !.timestamp = Num(t)])

AlarmGetRequest == Req(Direct("alarm"), "GET", "", NoBody)

AlarmDeleteRequest == Req(Direct("alarm"), "DELETE", "", NoBody)

\* C33: in every reachable state, frozen or not, an alarm-set of timestamp t
\* makes one storage call, setAlarm, and is answered 200 with success and t,
\* after which alarm-get is answered 200 with t; an alarm-delete makes one
\* storage call, deleteAlarm, and is answered 200 with success, after which
\* alarm-get is answered 200 with null.
C33_AlarmProxied ==
    /\ \A t \in AlarmTimes :
        LET set == Serve(AlarmSetOf(t), 1)
        IN  /\ set.response = [status |-> 200, body |-> [success |-> TRUE, alarm |-> Num(t)]]
            /\ Len(set.calls) = 1 /\ set.calls[1].m = "setAlarm"
            /\ ServeAfter(set, AlarmGetRequest, 1).response
                = [status |-> 200, body |-> [alarm |-> Num(t)]]
    /\ LET del == Serve(AlarmDeleteRequest, 1)
       IN  /\ del.response = Success
           /\ Len(del.calls) = 1 /\ del.calls[1].m = "deleteAlarm"
           /\ ServeAfter(del, AlarmGetRequest, 1).response
                = [status |-> 200, body |-> [alarm |-> Null]]

\* a frozen instance with an alarm: an alarm-set and an alarm-delete are both
\* performed
C33_Witness ==
    /\ Frozen /\ SinceFreeze
    /\ alarm # NoAlarm
    /\ \E t \in AlarmTimes :
        /\ Serve(AlarmSetOf(t), 1).alarm = t
        /\ Serve(AlarmSetOf(t), 1).response.status = 200
    /\ Serve(AlarmDeleteRequest, 1).alarm = NoAlarm
    /\ Serve(AlarmDeleteRequest, 1).response = Success


----------------------------------------------------------------------------
(* C34 *)

SqlOf(q) == Req(Direct("sql"), "POST", "", [EmptyObject EXCEPT !.query = q])

\* C34: a sql request with a query, served by an instance without a
\* relational backend, is answered 500 with the message "SQL not available -
\* this DO uses KV storage backend", makes no storage or SQL call and leaves
\* the state as it was; served by an instance with a relational backend that
\* executes the query, it makes one exec call with that query and is answered
\* 200 with the rows, rowCount equal to the number of rows, and the columns.
C34_SqlNeedsRelationalBackend ==
    \A q \in Queries :
        LET out == Serve(SqlOf(q), 1)
        IN  IF ~sql.present
            THEN /\ out.response = [status |-> 500, body |-> [error |-> SqlUnavailableMessage]]
                 /\ out.calls = <<>>
                 /\ StateAfter(out) = State
            ELSE SqlError(Begin(State, 0), q) = "" =>
                 /\ out.response.status = 200
                 /\ DOMAIN out.response.body = {"result", "rowCount", "columns"}
                 /\ out.response.body.result = SqlRows(Begin(State, 0), q)
                 /\ out.response.body.rowCount = Cardinality(out.response.body.result)
                 /\ Len(out.calls) = 1
                 /\ out.calls[1].m = "sql.exec" /\ out.calls[1].k = q

\* an instance without a relational backend that stores a user key refuses a
\* CREATE TABLE with the backend message and keeps its entries
C34_Witness ==
    /\ ~sql.present
    /\ storage["a"] # Undefined
    /\ Serve(SqlOf(CreateQuery), 1).response
        = [status |-> 500, body |-> [error |-> SqlUnavailableMessage]]
    /\ Serve(SqlOf(CreateQuery), 1).storage = storage
    /\ Serve(SqlOf(CreateQuery), 1).sql = sql


----------------------------------------------------------------------------
(* C35 *)

\* the requests served one awaited storage call at a time
AwaitedRequests ==
    FreezeRequests
    \cup {StatusRequest, AlarmGetRequest, PutOf("a", True), DeleteOf("a"),
          Req(Direct("put"), "POST", "", EmptyObject)}

\* the handler's run for request r when its storage call `fate` rejects (0:
\* none): the persisted state after each of its storage calls has settled, up
\* to and including the one that rejects, and the response it then returns
RunOf(r, now, fate) ==
    LET n == Len(fetch(options, State, r, now, fate).calls)
    IN  [after |-> [k \in 1..n |->
                      StateAfter(fetch(options, State, r, now,
                                       IF k = n THEN fate ELSE k + 1))],
         response |-> fetch(options, State, r, now, fate).response,
         record |-> Record(r, fetch(options, State, r, now, fate))]

\* a request arrives while none is being served; of its storage calls, call
\* `fate` rejects (0: none) and call `hang` never settles (0: none)
Arrive(r, now, fate, hang) ==
    /\ \A c \in pending : c.answered
    /\ fate <= Len(fetch(options, State, r, now, 0).calls)
    /\ hang <= Len(RunOf(r, now, fate).after)
    /\ pending' = {[r |-> r, fate |-> fate, hang |-> hang, run |-> RunOf(r, now, fate),
                    settled |-> 0, answered |-> FALSE]}
    /\ UNCHANGED <<options, storage, alarm, sql, history, inflight>>

\* the handler retrying the call that rejected instead of continuing
Settle_Retried(c) ==
    /\ c \in pending /\ ~c.answered
    /\ c.settled < Len(c.run.after)
    /\ c.settled + 1 # c.hang
    /\ IF c.settled + 1 = c.fate
       THEN UNCHANGED <<storage, alarm, sql, pending>>
       ELSE /\ storage' = c.run.after[c.settled + 1].storage
            /\ alarm' = c.run.after[c.settled + 1].alarm
            /\ sql' = c.run.after[c.settled + 1].sql
            /\ pending' = {[c EXCEPT !.settled = @ + 1]}
    /\ UNCHANGED <<options, history, inflight>>

\* the storage call the handler awaits settles, and the handler continues
Settle(c) ==
    /\ c \in pending /\ ~c.answered
    /\ c.settled < Len(c.run.after)
    /\ c.settled + 1 # c.hang
    /\ storage' = c.run.after[c.settled + 1].storage
    /\ alarm' = c.run.after[c.settled + 1].alarm
    /\ sql' = c.run.after[c.settled + 1].sql
    /\ pending' = {[c EXCEPT !.settled = @ + 1]}
    /\ UNCHANGED <<options, history, inflight>>

\* every call of the handler has settled: it returns its response
Respond(c) ==
    /\ c \in pending /\ ~c.answered
    /\ c.settled = Len(c.run.after)
    /\ pending' = {[c EXCEPT !.answered = TRUE]}
    /\ history' = c.run.record
    /\ UNCHANGED <<options, storage, alarm, sql, inflight>>

NextAwaited ==
    \/ \E r \in AwaitedRequests : \E now \in Readings(r) : \E fate, hang \in 0..MaxFault :
        Arrive(r, now, fate, hang)
    \/ \E c \in pending : Settle(c)
    \/ \E c \in pending : Respond(c)

\* a call that settles at all settles eventually, and the handler then continues
FairAwaited == WF_vars(\E c \in pending : Settle(c)) /\ WF_vars(\E c \in pending : Respond(c))

SpecAwaited == Init /\ [][NextAwaited]_vars /\ FairAwaited

\* C35: a request none of whose storage calls hangs is eventually answered;
\* a request one of whose storage calls never settles is never answered; and
\* once a request is answered the handler makes no further change to the
\* persisted state for it.
C35_AnsweredOnceIfCallsSettle ==
    /\ (\E c \in pending : ~c.answered /\ c.hang = 0) ~> (\E c \in pending : c.answered)
    /\ [](\A c \in pending : c.hang # 0 => ~c.answered)
    /\ [][(\E c \in pending : c.answered) =>
            (storage' = storage /\ alarm' = alarm /\ sql' = sql)]_vars

\* a freeze whose second storage call rejected has been answered, with 500,
\* after both of its calls settled
C35_Witness ==
    \E c \in pending :
        /\ c.answered /\ c.hang = 0
        /\ c.r = FreezeRequest
        /\ c.fate = 2 /\ c.settled = 2
        /\ c.run.response.status = 500


----------------------------------------------------------------------------
(* C36 *)

\* the instance after its application wrote v to the flag key through
\* state.storage, without an admin request
DirectFlag(v) == [State EXCEPT !.storage[FROZEN_STORAGE_KEY] = v]

\* a put, a delete and an import of a user key
GuardedProbes == {PutOf("a", True), DeleteOf("a"), ImportOf([k \in {"a"} |-> True])}

\* C36: whatever requests an instance served before, after the frozen flag is
\* set directly in storage to any value, the answers follow the storage
\* contents alone: a put or delete of a user key and an import are refused
\* with the frozen error and change nothing exactly if the stored flag is
\* truthy, and are performed otherwise; the freeze status reports frozen
\* exactly if the stored flag is truthy; a get returns the stored value.
C36_NoStateBetweenRequests ==
    \A v \in FlagValues :
        /\ \A r \in GuardedProbes :
            LET out == fetch(options, DirectFlag(v), r, 1, 0)
            IN  IF Truthy(v)
                THEN FrozenError(out.response) /\ StateAfter(out) = DirectFlag(v)
                ELSE /\ out.response.status = 200
                     /\ out.storage["a"] = IF IsOp(r, "delete", "POST") THEN Undefined ELSE True
        /\ fetch(options, DirectFlag(v), StatusRequest, 1, 0).response.status = 200
        /\ fetch(options, DirectFlag(v), StatusRequest, 1, 0).response.body.frozen <=> Truthy(v)
        /\ fetch(options, DirectFlag(v), GetOf("a"), 1, 0).response
            = [status |-> 200, body |-> [value |-> storage["a"]]]

\* an instance that served a freeze and holds a user key, its flag then
\* cleared directly in storage: a delete of the user key is performed
C36_Witness ==
    /\ SinceFreeze /\ Frozen
    /\ storage["a"] # Undefined
    /\ fetch(options, DirectFlag(Undefined), DeleteOf("a"), 1, 0).response = Success
    /\ fetch(options, DirectFlag(Undefined), DeleteOf("a"), 1, 0).storage["a"] = Undefined


----------------------------------------------------------------------------
(* C37: the published builds, dist/index.js (CommonJS) and dist/index.mjs (ESM) *)

\* dist/index.js: adminPut, adminDelete and adminImport write without reading
\* the frozen flag
CjsAdminPut(e, key, value) == StoragePut(e, key, value)

CjsAdminDelete(e, key) == StorageDelete(e, key)

CjsAdminImport(e, data) == StoragePutEntries(e, data)

\* dist/index.js: the try block compares the whole path after the base path,
\* and has no freeze routes
CjsDispatch(e, r, adminPath, now) ==
    IF adminPath = <<"/", "list">> /\ r.method = "GET"
    THEN LET e1 == adminList(e) IN Ok(e1, e1.result)
    ELSE IF adminPath = <<"/", "get">> /\ r.method = "GET"
    THEN IF r.searchKey = ""
         THEN Json(e, 400, [error |-> "Missing key parameter"])
         ELSE LET e1 == adminGet(e, r.searchKey) IN Ok(e1, e1.result)
    ELSE IF adminPath = <<"/", "put">> /\ r.method = "POST"
    THEN IF BodyError(r) # "" THEN Ok(Throw(e, BodyError(r)), NoResult)
         ELSE IF r.body.key = ""
         THEN Json(e, 400, [error |-> "Missing key in body"])
         ELSE Ok(CjsAdminPut(e, r.body.key, r.body.value), [success |-> TRUE])
    ELSE IF adminPath = <<"/", "delete">> /\ r.method = "POST"
    THEN IF BodyError(r) # "" THEN Ok(Throw(e, BodyError(r)), NoResult)
         ELSE IF r.body.key = ""
         THEN Json(e, 400, [error |-> "Missing key in body"])
         ELSE Ok(CjsAdminDelete(e, r.body.key), [success |-> TRUE])
    ELSE IF adminPath = <<"/", "sql">> /\ r.method = "POST"
    THEN IF BodyError(r) # "" THEN Ok(Throw(e, BodyError(r)), NoResult)
         ELSE IF r.body.query = ""
         THEN Json(e, 400, [error |-> "Missing query in body"])
         ELSE LET e1 == adminSql(e, r.body.query) IN Ok(e1, e1.result)
    ELSE IF adminPath = <<"/", "alarm">> /\ r.method = "GET"
    THEN LET e1 == adminGetAlarm(e) IN Ok(e1, e1.result)
    ELSE IF adminPath = <<"/", "alarm">> /\ r.method = "PUT"
    THEN IF BodyError(r) # "" THEN Ok(Throw(e, BodyError(r)), NoResult)
         ELSE IF r.body.timestamp[1] # "number"
         THEN Json(e, 400, [error |-> "Missing or invalid timestamp"])
         ELSE Ok(adminSetAlarm(e, r.body.timestamp[2]),
                 [success |-> TRUE, alarm |-> r.body.timestamp])
    ELSE IF adminPath = <<"/", "alarm">> /\ r.method = "DELETE"
    THEN Ok(adminDeleteAlarm(e), [success |-> TRUE])
    ELSE IF adminPath = <<"/", "export">> /\ r.method = "GET"
    THEN LET e1 == adminExport(e, now) IN Ok(e1, e1.result)
    ELSE IF adminPath = <<"/", "import">> /\ r.method = "POST"
    THEN IF BodyError(r) # "" THEN Ok(Throw(e, BodyError(r)), NoResult)
         ELSE IF r.body.data.type # "object"
         THEN Json(e, 400, [error |-> "Missing or invalid data object"])
         ELSE Ok(CjsAdminImport(e, r.body.data.entries),
                 [success |-> TRUE, imported |-> Cardinality(DOMAIN r.body.data.entries)])
    ELSE Json(e, 404, [error |-> "Unknown admin endpoint"])

\* dist/index.js: handleAdminRequest
CjsHandleAdminRequest(opts, st, r, now, fault) ==
    IF ~StartsWith(r.path, BasePath(opts))
    THEN [storage |-> st.storage, alarm |-> st.alarm, sql |-> st.sql,
          calls |-> <<>>, response |-> NotHandled]
    ELSE IF /\ RequireAuth(opts)
            /\ \/ Len(HeaderOrEmpty(r, "X-Admin-Key")) # Len(ExpectedKey(opts))
               \/ ~timingSafeEqual(HeaderOrEmpty(r, "X-Admin-Key"), ExpectedKey(opts))
    THEN Handled(Json(Begin(st, fault), 401, [error |-> "Unauthorized"]))
    ELSE Handled(Catch(CjsDispatch(Begin(st, fault), r,
                                   Slice(r.path, Len(BasePath(opts))), now)))

\* dist/index.js: fetch
CjsFetch(opts, st, r, now, fault) ==
    LET out == CjsHandleAdminRequest(opts, st, r, now, fault)
    IN  IF out.response.status # NotHandled.status THEN out
        ELSE [out EXCEPT !.response = [status |-> 200, body |-> [text |-> DefaultText]]]

\* dist/index.mjs: the transpiled source, statement for statement
EsmFetch(opts, st, r, now, fault) == fetch(opts, st, r, now, fault)

\* C37: in every reachable state and for every request, the CommonJS build and
\* the ESM build return the same response and leave the same persisted state.
C37_BuildsAgree ==
    \A r \in Requests : \A now \in Readings(r) :
        LET cjs == CjsFetch(options, State, r, now, 0)
            esm == EsmFetch(options, State, r, now, 0)
        IN  cjs.response = esm.response /\ StateAfter(cjs) = StateAfter(esm)


----------------------------------------------------------------------------
(* C38 *)

\* request r with its path continuing the last segment of the base path:
\* /admin/list becomes /administrator/list
Overrun(r) ==
    [r EXCEPT !.path = BasePath(options) \o <<"istrator">>
                        \o Slice(r.path, Len(BasePath(options)))]

\* C38: a request whose path has the base path as a string prefix that does
\* not end at a segment boundary gets the not-handled signal from
\* handleAdminRequest and leaves the persisted state as it was.
C38_PrefixNeedsBoundary ==
    \A r \in Requests : \A now \in Readings(r) :
        StartsWith(r.path, BasePath(options)) =>
            LET out == handleAdminRequest(options, State, Overrun(r), now, 0)
            IN  out.response = NotHandled /\ StateAfter(out) = State


----------------------------------------------------------------------------
(* C39 *)

\* the routes that read a JSON body
BodyRoutes ==
    {<<"put", "POST">>, <<"delete", "POST">>, <<"sql", "POST">>,
     <<"alarm", "PUT">>, <<"import", "POST">>}

\* no body or text that is not JSON, the JSON text null, and an object
\* without the field the route requires
BadBodies == {NoBody, NullBody, EmptyObject}

\* C39: a request to put, delete, sql, alarm-set or import whose body is not
\* JSON, is the JSON null, or lacks the required field is answered 400, makes
\* no storage call and leaves the persisted state as it was.
C39_BadBodyAnswers400 ==
    \A t \in BodyRoutes : \A b \in BadBodies :
        LET out == Serve(Req(Direct(t[1]), t[2], "", b), 1)
        IN  /\ out.response.status = 400
            /\ out.calls = <<>>
            /\ StateAfter(out) = State

============================================================================
